---- MODULE Spec2Model ----
(***************************************************************************)
(* Verification model of kanboo/client-side-crop: the geometry and         *)
(* boundary-enforcement engine of the cropping editors.                    *)
(*                                                                         *)
(*   SpecFit      calculateFitSelection as a pure function, bounded inputs *)
(*   SpecSel      the editors that validate every selection change         *)
(*   SpecSnap     the two MovableCroppingEditor variants                   *)
(*   SpecBg       the selection-bounded editor (movable background image)  *)
(*   SpecPan      the same editor under pointer gestures only              *)
(*   SpecExport   the export handlers of the two containers                *)
(*   SpecCropper  one useCropper instance                                  *)
(*   SpecPreview  CropperEditor in its container, with cancel              *)
(*   SpecHeic     checkHeicSupport calls and the module's cache            *)
(*   SpecBgFair, SpecSelFair, SpecHeicFair: the same under event-loop      *)
(*                scheduling (timers fire, microtasks run)                 *)
(*                                                                         *)
(* JavaScript numbers are modelled as exact rationals <<n, d>> (d > 0, in  *)
(* lowest terms), so that equalities the source states up to a float       *)
(* tolerance are checked exactly.                                          *)
(***************************************************************************)
EXTENDS Integers, Sequences, FiniteSets, TLC

----------------------------------------------------------------------------
(* Exact rational arithmetic standing for JavaScript number arithmetic.    *)

Abs(n) == IF n < 0 THEN -n ELSE n

RECURSIVE GCD(_, _)
GCD(a, b) == IF b = 0 THEN a ELSE GCD(b, a % b)

\* The rational n/d in lowest terms with a positive denominator (d # 0).
RatBy(n, d, g) == IF d < 0 THEN <<(-n) \div g, (-d) \div g>> ELSE <<n \div g, d \div g>>
Rat(n, d) == IF d = 1 THEN <<n, 1>> ELSE RatBy(n, d, GCD(Abs(n), Abs(d)))

Num(n) == <<n, 1>>

\* Common factors are cancelled before multiplying, to keep the integers small.
RAddBy(a, b, g) ==
  IF g = 1 THEN Rat(a[1] * b[2] + b[1] * a[2], a[2] * b[2])
  ELSE Rat(a[1] * (b[2] \div g) + b[1] * (a[2] \div g), (a[2] \div g) * b[2])
RAdd(a, b) ==
  IF a[2] = b[2] THEN Rat(a[1] + b[1], a[2]) ELSE RAddBy(a, b, GCD(a[2], b[2]))
RSub(a, b) == RAdd(a, <<-b[1], b[2]>>)
RMulBy(a, b, g1, g2) ==
  Rat((a[1] \div g1) * (b[1] \div g2), (a[2] \div g2) * (b[2] \div g1))
RMul(a, b) ==
  IF a[2] = 1 /\ b[2] = 1 THEN <<a[1] * b[1], 1>>
  ELSE RMulBy(a, b, GCD(Abs(a[1]), b[2]), GCD(Abs(b[1]), a[2]))
\* a / b for b # 0 (the model never divides by zero: see each caller).
RDiv(a, b) == RMul(a, IF b[1] < 0 THEN <<-b[2], -b[1]>> ELSE <<b[2], b[1]>>)
RHalf(a)   == Rat(a[1], a[2] * 2)

RLtBy(a, b, g) == a[1] * (b[2] \div g) < b[1] * (a[2] \div g)
RLt(a, b) == IF a[2] = b[2] THEN a[1] < b[1] ELSE RLtBy(a, b, GCD(a[2], b[2]))
RLeBy(a, b, g) == a[1] * (b[2] \div g) <= b[1] * (a[2] \div g)
RLe(a, b) == IF a[2] = b[2] THEN a[1] <= b[1] ELSE RLeBy(a, b, GCD(a[2], b[2]))
RGt(a, b) == RLt(b, a)
RGe(a, b) == RLe(b, a)
RMax(a, b) == IF RLt(a, b) THEN b ELSE a
RMin(a, b) == IF RLt(a, b) THEN a ELSE b

Zero == Num(0)
One  == Num(1)

\* An absent value (null / undefined) is <<>>, a present value v is <<v>>.
None == <<>>
Some(v) == <<v>>

----------------------------------------------------------------------------
(* useCropperCalculation.ts                                                *)

\* DOMRect as the source reads it: left, top, width, height.
DOMRect(l, t, w, h) == [left |-> l, top |-> t, width |-> w, height |-> h]

\* Mutant: centres on the container-relative origin only (drops the image size).
calculateFitSelectionNoCentre(imageRect, canvasRect, aspectRatio, coverage) ==
  LET imgX == RSub(imageRect.left, canvasRect.left)
      imgY == RSub(imageRect.top, canvasRect.top)
      w0 == RMul(imageRect.width, coverage)
      h0 == RDiv(w0, aspectRatio)
      over == RGt(h0, imageRect.height)
      h == IF over THEN RMul(imageRect.height, coverage) ELSE h0
      w == IF over THEN RMul(h, aspectRatio) ELSE w0
  IN  IF RLe(w, Zero) \/ RLe(h, Zero) THEN None
      ELSE Some([x |-> imgX, y |-> imgY, width |-> w, height |-> h])

\* Mutant: never falls back to the height-constrained candidate.
calculateFitSelectionWidthOnly(imageRect, canvasRect, aspectRatio, coverage) ==
  LET imgX == RSub(imageRect.left, canvasRect.left)
      imgY == RSub(imageRect.top, canvasRect.top)
      w == RMul(imageRect.width, coverage)
      h == RDiv(w, aspectRatio)
  IN  IF RLe(w, Zero) \/ RLe(h, Zero) THEN None
      ELSE Some([x |-> RAdd(imgX, RHalf(RSub(imageRect.width, w))),
                 y |-> RAdd(imgY, RHalf(RSub(imageRect.height, h))),
                 width |-> w, height |-> h])

\* Mutant: the invalid-size guard is dropped.
calculateFitSelectionNoGuard(imageRect, canvasRect, aspectRatio, coverage) ==
  LET imgX == RSub(imageRect.left, canvasRect.left)
      imgY == RSub(imageRect.top, canvasRect.top)
      w0 == RMul(imageRect.width, coverage)
      h0 == RDiv(w0, aspectRatio)
      over == RGt(h0, imageRect.height)
      h == IF over THEN RMul(imageRect.height, coverage) ELSE h0
      w == IF over THEN RMul(h, aspectRatio) ELSE w0
  IN  Some([x |-> RAdd(imgX, RHalf(RSub(imageRect.width, w))),
            y |-> RAdd(imgY, RHalf(RSub(imageRect.height, h))),
            width |-> w, height |-> h])

\* Mutant: the height-constrained fallback forgets to recompute the width
\* (the line w = h * R is missing).
calculateFitSelectionStaleWidth(imageRect, canvasRect, aspectRatio, coverage) ==
  LET imgX == RSub(imageRect.left, canvasRect.left)
      imgY == RSub(imageRect.top, canvasRect.top)
      w0 == RMul(imageRect.width, coverage)
      h0 == RDiv(w0, aspectRatio)
      over == RGt(h0, imageRect.height)
      h == IF over THEN RMul(imageRect.height, coverage) ELSE h0
      w == IF over THEN w0 ELSE w0
  IN  IF RLe(w, Zero) \/ RLe(h, Zero) THEN None
      ELSE Some([x |-> RAdd(imgX, RHalf(RSub(imageRect.width, w))),
                 y |-> RAdd(imgY, RHalf(RSub(imageRect.height, h))),
                 width |-> w, height |-> h])

\* calculateFitSelection(imageRect, canvasRect, aspectRatio, coverage):
\* width-constrained candidate, height-constrained fallback, null on an
\* invalid size, centred on the image in container-relative coordinates.
calculateFitSelection(imageRect, canvasRect, aspectRatio, coverage) ==
  LET imgX == RSub(imageRect.left, canvasRect.left)
      imgY == RSub(imageRect.top, canvasRect.top)
      imgW == imageRect.width
      imgH == imageRect.height
      R    == aspectRatio
      cov  == coverage
      w0   == RMul(imgW, cov)
      h0   == RDiv(w0, R)
      over == RGt(h0, imgH)
      h    == IF over THEN RMul(imgH, cov) ELSE h0
      w    == IF over THEN RMul(h, R) ELSE w0
  IN  IF RLe(w, Zero) \/ RLe(h, Zero) THEN None
      ELSE Some([x |-> RAdd(imgX, RHalf(RSub(imgW, w))),
                 y |-> RAdd(imgY, RHalf(RSub(imgH, h))),
                 width |-> w, height |-> h])

----------------------------------------------------------------------------
(* State                                                                   *)

VARIABLES
  fitArgs,      \* the arguments of the calculateFitSelection call under test
  fitResult,    \* its result: None (null) or Some(rect); None before the call
  fitCalled,    \* whether fitResult is the result for fitArgs
  exportArgs,   \* the export under test: the editor's refs and transform, the container's request
  exportPc,     \* where the container's export handler stands
  exportOut,    \* what the export produced: the rasterization request, the error, the event
  \* -- one useCropper instance --
  cropImpl,         \* which useCropper source this behaviour runs
  maxFileSize,      \* the argument of useCropper(maxFileSize)
  isHeicSupported,  \* useHeicSupport().isSupported.value
  cropImageUrl,     \* useCropper's imageUrl: 0 is '', k > 0 the k-th object URL created
  imageName,        \* useCropper's imageName ("" when empty)
  imageMimeType,    \* useCropper's imageMimeType ("" when empty)
  urlLog,           \* the URL.createObjectURL / URL.revokeObjectURL calls made, in order
  lastLoad,         \* the last loadImage call: its file and its result
  disposed,         \* the instance's effect scope has been disposed
  \* -- useHeicSupport: the module's cache and the checkHeicSupport calls --
  cachedSupport,    \* the module variable cachedSupport: None (null) or Some(boolean)
  heicEnv,          \* the browser: its ImageDecoder, and whether it decodes HEIC images
  detections,       \* per checkHeicSupport call: where it stands, its image, timer, promise
  \* -- the editor components (one component instance per behaviour) --
  variant,              \* which editor component this behaviour runs
  aspectRatio,          \* props.aspectRatio
  initialCoverage,      \* props.initialCoverage
  imageUrl,             \* props.imageUrl: 0 is '', k > 0 the k-th URL given
  imageState,           \* the <img> of cropper-image: "none", "loading", "complete", "broken"
  naturalSize,          \* width and height of the displayed bitmap (0 x 0: none)
  matrix,               \* image.$getTransform(): uniform scale a and translation tx, ty
  selection,            \* x, y, width, height of the cropper-selection element
  allowScaleTransform,  \* ref allowScaleTransform
  isProgrammaticUpdate, \* ref isProgrammaticUpdate
  scaleTransformTimer,  \* CropperEditor: the 500 ms timer is pending
  watchers,             \* per URL k: where the watch(props.imageUrl) callback stands
  microtasks,           \* pending microtasks (nextTick continuations), in order
  activePointers,       \* tracked pointer ids -> last position
  wheelTimeout,         \* the wheel-debounce timer is pending
  transition,           \* style.transition of the corrected element is set
  cleanupTimers,        \* the corrections whose fallback cleanup timeout is pending
  cleanupListeners,     \* the corrections whose transitionend cleanup listener is registered
  previewTimers,        \* CropperEditor: pending 200 ms preview timeouts
  rasterJobs,           \* CropperEditor: pending $toCanvas calls, in call order
  updateCanvas,         \* CropperEditor: last 'update-canvas' payload (None: none yet)
  currentPreviewCanvas, \* the container's currentPreviewCanvas (None: null)
  loadErrors,           \* number of 'load-error' events emitted
  lastChange,           \* the last selection 'change' event handled, and its outcome
  lastSnap,             \* the last boundary correction run, and the gate state it ran in
  lastTransform,        \* the last transform a gesture proposed for the image, and its outcome
  prevTwoFingerCenter,  \* MovableBackgroundImageEditor: midpoint of the previous two-finger move
  snapCount,            \* number of corrections that set a transition (names their cleanups)
  snapRuns,             \* number of boundary correction runs so far
  animation,            \* the image's running transform transition: where it started, where to
  animReads,            \* number of corrections that met the image part-way through one (bounded)
  changeEmits,          \* number of 'change' events emitted to the parent
  steps,                \* number of user input events so far (bounded)
  stepLimit             \* the number of user input events this behaviour is followed for

exportVars == <<exportArgs, exportPc, exportOut>>
cropVars == <<cropImpl, maxFileSize, isHeicSupported, cropImageUrl, imageName,
              imageMimeType, urlLog, lastLoad, disposed>>
\* The variables of the calls under test: no editor action touches them.
heicVars == <<cachedSupport, heicEnv, detections>>
fitVars == <<fitArgs, fitResult, fitCalled, exportVars, cropVars, heicVars>>
edVars == <<variant, aspectRatio, initialCoverage, imageUrl, imageState, naturalSize,
            matrix, selection, allowScaleTransform, isProgrammaticUpdate,
            scaleTransformTimer, watchers, microtasks, activePointers, wheelTimeout,
            transition, cleanupTimers, cleanupListeners, previewTimers, rasterJobs,
            updateCanvas, currentPreviewCanvas, loadErrors, lastChange, lastSnap, lastTransform,
            prevTwoFingerCenter, snapCount, snapRuns, animation, animReads,
            changeEmits, steps, stepLimit>>
vars == <<fitVars, edVars>>

----------------------------------------------------------------------------
(* The editors' environment: container, images, the cropper-selection       *)

\* Bounds.
MaxLoads    == 2    \* image URLs given to one component
MaxSelSteps == 2    \* user steps (gestures, image replacements) on an image-bounded editor
MaxBgSteps  == 3    \* user steps on the selection-bounded editor
MaxPanSteps == 4    \* user steps of a behaviour of pointer gestures only
MaxPointers == 3    \* pointer ids

\* The components of image-bounded mode (the selection moves over the image).
MovableCropping     == "MovableCroppingEditor.vue"      \* rejects offending changes
MovableCroppingSnap == "part_006"                       \* snaps the selection back
CropperEditor       == "CropperEditor.vue"              \* rejects, emits the preview
ImageBoundedVariants == {MovableCropping, MovableCroppingSnap, CropperEditor}
\* The component of selection-bounded mode (the image moves under the selection).
MovableBackground   == "MovableBackgroundImageEditor.vue"

\* The step bound of the running component.
MaxSteps == stepLimit

\* Configurations in the documented range: aspectRatio > 0, coverage in (0, 1].
EdConfigs == {[aspectRatio |-> Rat(9, 16), initialCoverage |-> One],
              [aspectRatio |-> Rat(16, 9), initialCoverage |-> Rat(7, 10)]}

Rect(x, y, w, h) == [x |-> x, y |-> y, width |-> w, height |-> h]
ZeroRect == Rect(Zero, Zero, Zero, Zero)

\* .cropper-editor { width: 100%; aspect-ratio: v-bind(aspectRatio) } (in
\* CropperEditor.vue: aspect-ratio: 9 / 16) with cropper-canvas filling it:
\* the canvas is 360 layout pixels wide.
CanvasOffsetWidth  == Num(360)
CanvasOffsetHeight ==
  RDiv(CanvasOffsetWidth, IF variant = CropperEditor THEN Rat(9, 16) ELSE aspectRatio)
\* canvasRect.width / canvas.offsetWidth: no ancestor of the canvas is scaled.
globalScale == RDiv(CanvasOffsetWidth, CanvasOffsetWidth)
\* canvas.getBoundingClientRect(): the canvas sits at (20, 10) of the viewport.
CanvasRect ==
  DOMRect(Num(20), Num(10), RMul(globalScale, CanvasOffsetWidth),
          RMul(globalScale, CanvasOffsetHeight))

\* The largest rectangle of width/height ratio r inside a w x h box.
ContainW(w, h, r) == RMin(w, RMul(h, r))
ContainH(w, h, r) == RDiv(ContainW(w, h, r), r)

\* The bitmaps a URL can load: portrait and landscape.
Size(w, h) == [width |-> w, height |-> h]
NoSize == Size(Zero, Zero)
NaturalSizes == {Size(Num(400), Num(800)), Size(Num(800), Num(400))}

\* The image's transform: matrix [a, 0, 0, a, tx, ty], transform-origin centre,
\* the untransformed image laid out at the canvas origin.
Matrix(a, tx, ty) == [a |-> a, tx |-> tx, ty |-> ty]
IdentityMatrix == Matrix(One, Zero, Zero)
\* initial-center-size="contain": scaled to the largest size that fits the
\* canvas, centred in it.
ContainMatrix(nat) ==
  Matrix(RMin(RDiv(CanvasOffsetWidth, nat.width), RDiv(CanvasOffsetHeight, nat.height)),
         RHalf(RSub(CanvasOffsetWidth, nat.width)),
         RHalf(RSub(CanvasOffsetHeight, nat.height)))
\* image.$move(dx, dy) and image.$zoom by a factor f about the image's centre.
MoveMatrix(m, dx, dy) == Matrix(m.a, RAdd(m.tx, dx), RAdd(m.ty, dy))
ZoomMatrix(m, f) == Matrix(RMul(m.a, f), m.tx, m.ty)

\* image.getBoundingClientRect() for a bitmap of size nat under matrix m.
ImageRectOf(nat, m) ==
  LET w == RMul(globalScale, RMul(m.a, nat.width))
      h == RMul(globalScale, RMul(m.a, nat.height))
      cx == RAdd(CanvasRect.left, RMul(globalScale, RAdd(m.tx, RHalf(nat.width))))
      cy == RAdd(CanvasRect.top, RMul(globalScale, RAdd(m.ty, RHalf(nat.height))))
  IN  DOMRect(RSub(cx, RHalf(w)), RSub(cy, RHalf(h)), w, h)
imageRect == ImageRectOf(naturalSize, matrix)

\* selection.getBoundingClientRect() for a selection at x, y, width, height.
SelectionRectOf(sel) ==
  DOMRect(RAdd(CanvasRect.left, RMul(globalScale, sel.x)),
          RAdd(CanvasRect.top, RMul(globalScale, sel.y)),
          RMul(globalScale, sel.width), RMul(globalScale, sel.height))
selectionRect == SelectionRectOf(selection)

\* The image's bounds in container-relative coordinates.
maxSelection ==
  Rect(RSub(imageRect.left, CanvasRect.left), RSub(imageRect.top, CanvasRect.top),
       imageRect.width, imageRect.height)

\* cropper-selection's :initial-coverage: the aspect-locked rectangle covering
\* that fraction of the canvas, centred in the canvas.
InitialCoverageSelection ==
  LET w == ContainW(RMul(CanvasOffsetWidth, initialCoverage),
                    RMul(CanvasOffsetHeight, initialCoverage), aspectRatio)
      h == RDiv(w, aspectRatio)
  IN  Rect(RHalf(RSub(CanvasOffsetWidth, w)), RHalf(RSub(CanvasOffsetHeight, h)), w, h)

\* The template is rendered (v-if="imageUrl"): canvas, image and selection exist.
Mounted == imageUrl # 0

----------------------------------------------------------------------------
(* Selection validation                                                    *)

\* Mutant: the right and bottom edges are not compared.
WithinLeftTopOnly(sel, max, eps) ==
  /\ RGe(sel.x, RSub(max.x, eps))
  /\ RGe(sel.y, RSub(max.y, eps))

\* The four comparisons shared by inSelection, isValidSelection and isWithin.
Within(sel, max, eps) ==
  /\ RGe(sel.x, RSub(max.x, eps))
  /\ RGe(sel.y, RSub(max.y, eps))
  /\ RLe(RAdd(sel.x, sel.width), RAdd(RAdd(max.x, max.width), eps))
  /\ RLe(RAdd(sel.y, sel.height), RAdd(RAdd(max.y, max.height), eps))

\* MovableCroppingEditor.vue: inSelection, EPSILON = 0.1.
inSelection_EPSILON == Rat(1, 10)
inSelection(sel, max) == Within(sel, max, inSelection_EPSILON)
\* part_006: isValidSelection, EPSILON = 0.5.
isValidSelection_EPSILON == Rat(1, 2)
isValidSelection(sel, max) == Within(sel, max, isValidSelection_EPSILON)
\* CropperEditor.vue: isWithin, EPSILON = 1.0.
isWithin_EPSILON == Num(1)
isWithin(sel, max) == Within(sel, max, isWithin_EPSILON)

\* The epsilon configured in each component.
Epsilon ==
  CASE variant = MovableCropping     -> inSelection_EPSILON
    [] variant = MovableCroppingSnap -> isValidSelection_EPSILON
    [] OTHER                         -> isWithin_EPSILON

\* Selections a user gesture can propose: aspect-locked, of a size relative to
\* the largest aspect-locked rectangle inside the reference box (the image when
\* one is displayed, else the canvas), centred in it except for one edge placed
\* at a given distance outside (negative: inside) the box's edge: well inside,
\* exactly on the edge, exactly epsilon outside, and beyond epsilon; the largest
\* rectangle itself, touching the box; and a centred rectangle larger than it.
CandidateSides   == {"left", "top", "right", "bottom"}
CandidateOffsets == {Num(-40), Zero, Epsilon, RAdd(Epsilon, Rat(1, 5))}
CandidateScale   == Rat(1, 2)
OversizeScale    == Rat(6, 5)
CandidateReference ==
  IF RGt(naturalSize.width, Zero) THEN maxSelection
  ELSE Rect(Zero, Zero, CanvasOffsetWidth, CanvasOffsetHeight)
Candidate(ref, side, off, k) ==
  LET w == RMul(ContainW(ref.width, ref.height, aspectRatio), k)
      h == RDiv(w, aspectRatio)
      cx == RAdd(ref.x, RHalf(RSub(ref.width, w)))
      cy == RAdd(ref.y, RHalf(RSub(ref.height, h)))
  IN  Rect(CASE side = "left"  -> RSub(ref.x, off)
             [] side = "right" -> RAdd(RSub(RAdd(ref.x, ref.width), w), off)
             [] OTHER -> cx,
           CASE side = "top"    -> RSub(ref.y, off)
             [] side = "bottom" -> RAdd(RSub(RAdd(ref.y, ref.height), h), off)
             [] OTHER -> cy,
           w, h)
\* (no gesture is possible, and none is enumerated, until the editor is
\* rendered and idle)
Candidates ==
  IF Mounted /\ microtasks = <<>> /\ steps < MaxSteps
  THEN UNION {{Candidate(ref, side, off, CandidateScale) :
                    side \in CandidateSides, off \in CandidateOffsets}
                \cup {Candidate(ref, "left", Zero, One),
                      Candidate(ref, "none", Zero, OversizeScale)} :
              ref \in {CandidateReference}}
  ELSE {}

\* Mutant: CropperEditor emits 'change' and rasterizes before it validates.
handleSelectionChangeEmitFirst(detail, refsBound, programmatic) ==
  CASE variant = MovableCropping ->
         [prevented |-> ~programmatic /\ refsBound
                          /\ ~inSelection(detail, maxSelection),
          emitChange |-> FALSE, raster |-> FALSE]
    [] variant = CropperEditor ->
         [prevented |-> refsBound /\ ~isWithin(detail, maxSelection),
          emitChange |-> TRUE, raster |-> refsBound]
    [] OTHER -> [prevented |-> FALSE, emitChange |-> FALSE, raster |-> FALSE]

\* handleSelectionChange on a 'change' event carrying `detail`: whether it calls
\* preventDefault, emits 'change' to the parent, and starts a rasterization.
\* refsBound: the template refs (image, selection, canvas) are set;
\* programmatic: the value of isProgrammaticUpdate when the event is dispatched.
\* part_006 binds no @change handler.
handleSelectionChange(detail, refsBound, programmatic) ==
  CASE variant = MovableCropping ->
         [prevented |-> ~programmatic /\ refsBound
                          /\ ~inSelection(detail, maxSelection),
          emitChange |-> FALSE, raster |-> FALSE]
    [] variant = CropperEditor ->
         LET rejected == refsBound /\ ~isWithin(detail, maxSelection)
         IN  [prevented |-> rejected,
              emitChange |-> ~rejected,
              raster |-> ~rejected /\ refsBound]
    [] OTHER -> [prevented |-> FALSE, emitChange |-> FALSE, raster |-> FALSE]

\* The record kept of a handled 'change' event.
ChangeRecord(detail, max, out, byUser, refsBound) ==
  [detail |-> detail, max |-> max, byUser |-> byUser, refsBound |-> refsBound,
   prevented |-> out.prevented, emitChange |-> out.emitChange, raster |-> out.raster]

----------------------------------------------------------------------------
(* Boundary correction                                                     *)

\* Mutant: the selection is resized but its position is not clamped.
snapSelectionTargetNoShift(cur, max) ==
  LET s1 == IF RGt(cur.width, max.width) THEN RDiv(max.width, cur.width) ELSE One
      scale == IF RGt(RMul(cur.height, s1), max.height)
               THEN RMin(s1, RDiv(max.height, cur.height)) ELSE s1
      shrink == RLt(scale, One)
      w == IF shrink THEN RMul(cur.width, scale) ELSE cur.width
      h == IF shrink THEN RMul(cur.height, scale) ELSE cur.height
      x0 == IF shrink THEN RSub(RAdd(cur.x, RHalf(cur.width)), RHalf(w)) ELSE cur.x
      y0 == IF shrink THEN RSub(RAdd(cur.y, RHalf(cur.height)), RHalf(h)) ELSE cur.y
  IN  Rect(x0, y0, w, h)

\* part_006 snapSelectionToBoundary: the target of an invalid selection `cur`
\* for image bounds `max`: shrunk about its centre until it fits, then moved
\* inside, left/top first and right/bottom after.
snapSelectionTarget(cur, max) ==
  LET s1 == IF RGt(cur.width, max.width) THEN RDiv(max.width, cur.width) ELSE One
      scale == IF RGt(RMul(cur.height, s1), max.height)
               THEN RMin(s1, RDiv(max.height, cur.height)) ELSE s1
      shrink == RLt(scale, One)
      w == IF shrink THEN RMul(cur.width, scale) ELSE cur.width
      h == IF shrink THEN RMul(cur.height, scale) ELSE cur.height
      x0 == IF shrink THEN RSub(RAdd(cur.x, RHalf(cur.width)), RHalf(w)) ELSE cur.x
      y0 == IF shrink THEN RSub(RAdd(cur.y, RHalf(cur.height)), RHalf(h)) ELSE cur.y
      x1 == IF RLt(x0, max.x) THEN max.x ELSE x0
      y1 == IF RLt(y0, max.y) THEN max.y ELSE y0
      x2 == IF RGt(RAdd(x1, w), RAdd(max.x, max.width))
            THEN RSub(RAdd(max.x, max.width), w) ELSE x1
      y2 == IF RGt(RAdd(y1, h), RAdd(max.y, max.height))
            THEN RSub(RAdd(max.y, max.height), h) ELSE y1
  IN  Rect(x2, y2, w, h)

\* part_006 snapSelectionToBoundary: what it does to the selection.
\* changed: a transition is set and $change is called with `target`.
snapSelectionToBoundary ==
  LET valid == isValidSelection(selection, maxSelection)
  IN  [changed |-> ~valid,
       target |-> IF valid THEN selection ELSE snapSelectionTarget(selection, maxSelection)]

\* The scale tolerance of snapToBoundary: `maxRatio > 1.01`.
SNAP_SCALE_TOLERANCE == Rat(101, 100)

\* MovableBackgroundImageEditor snapToBoundary: the matrix it computes from the
\* selection's and the image's bounding rectangles sr and ir.
\* changed: a transition is set and $setTransform is called with `matrix`.
\* With no bitmap displayed the image's rectangle is empty, the ratios are
\* infinite, and the matrix computed is not finite: such a matrix is no valid
\* CSS transform, and the image keeps the transform it had.
snapToBoundary(sr, ir) ==
  LET degenerate == ir.width = Zero \/ ir.height = Zero
      widthRatio == RDiv(sr.width, ir.width)
      heightRatio == RDiv(sr.height, ir.height)
      maxRatio == RMax(widthRatio, heightRatio)
      grow == RGt(maxRatio, SNAP_SCALE_TOLERANCE)
      cx == RAdd(ir.left, RHalf(ir.width))
      cy == RAdd(ir.top, RHalf(ir.height))
      currentWidth == IF grow THEN RMul(ir.width, maxRatio) ELSE ir.width
      currentHeight == IF grow THEN RMul(ir.height, maxRatio) ELSE ir.height
      currentLeft == IF grow THEN RSub(cx, RHalf(currentWidth)) ELSE ir.left
      currentTop == IF grow THEN RSub(cy, RHalf(currentHeight)) ELSE ir.top
      srRight == RAdd(sr.left, sr.width)
      srBottom == RAdd(sr.top, sr.height)
      dx == IF RGt(currentLeft, sr.left) THEN RSub(sr.left, currentLeft)
            ELSE IF RLt(RAdd(currentLeft, currentWidth), srRight)
                 THEN RSub(srRight, RAdd(currentLeft, currentWidth)) ELSE Zero
      dy == IF RGt(currentTop, sr.top) THEN RSub(sr.top, currentTop)
            ELSE IF RLt(RAdd(currentTop, currentHeight), srBottom)
                 THEN RSub(srBottom, RAdd(currentTop, currentHeight)) ELSE Zero
      shift == (dx # Zero \/ dy # Zero) /\ RGt(globalScale, Zero)
      a1 == IF grow THEN RMul(matrix.a, maxRatio) ELSE matrix.a
  IN  IF degenerate
      THEN [changed |-> TRUE, scaled |-> TRUE, dx |-> Zero, dy |-> Zero, matrix |-> matrix]
      ELSE
      [changed |-> grow \/ shift,
       scaled |-> grow, dx |-> dx, dy |-> dy,
       matrix |-> Matrix(a1,
                         IF shift THEN RAdd(matrix.tx, RDiv(dx, globalScale)) ELSE matrix.tx,
                         IF shift THEN RAdd(matrix.ty, RDiv(dy, globalScale)) ELSE matrix.ty)]

\* Rectangle `outer` (a DOMRect) contains rectangle `inner` on all four sides.
Contains(outer, inner) ==
  /\ RLe(outer.left, inner.left)
  /\ RLe(outer.top, inner.top)
  /\ RGe(RAdd(outer.left, outer.width), RAdd(inner.left, inner.width))
  /\ RGe(RAdd(outer.top, outer.height), RAdd(inner.top, inner.height))

\* While style.transition is set, a transform set on the image is reached
\* gradually: between the matrix shown when the transition started and the
\* matrix set, at a fraction of the way that the easing curve and the time
\* elapsed decide.
AnimProgress == {Rat(1, 2), One}
Lerp(m0, m1, t) ==
  Matrix(RAdd(m0.a, RMul(t, RSub(m1.a, m0.a))),
         RAdd(m0.tx, RMul(t, RSub(m1.tx, m0.tx))),
         RAdd(m0.ty, RMul(t, RSub(m1.ty, m0.ty))))

\* The number of corrections that run part-way through a transition.
MaxAnimReads == 1

\* The $toCanvas calls that can be pending at once: one per image load
\* (the 200 ms timeout) and one per selection change.
MaxRasterJobs == MaxLoads + MaxSelSteps + 1

\* The transforms the image can be displayed under: image.$getTransform()
\* returns `matrix`, the transform last set, while the layout that
\* image.getBoundingClientRect() reports follows the running transition.
DisplayedMatrices ==
  IF transition /\ animation # None /\ animReads < MaxAnimReads
  THEN {Lerp(animation[1].from, matrix, t) : t \in AnimProgress}
  ELSE {matrix}

----------------------------------------------------------------------------
(* The editor components as a state machine                                *)

props       == <<variant, aspectRatio, initialCoverage, stepLimit>>
loadVars    == <<imageUrl, imageState, watchers, loadErrors>>
imageVars   == <<naturalSize, matrix>>
gateVars    == <<allowScaleTransform, isProgrammaticUpdate, scaleTransformTimer>>
pointerVars == <<activePointers, prevTwoFingerCenter>>
snapVars    == <<transition, cleanupTimers, cleanupListeners, snapCount, snapRuns, lastSnap,
                 animation, animReads>>
previewVars == <<previewTimers, rasterJobs, updateCanvas, currentPreviewCanvas>>
changeVars  == <<lastChange, changeEmits>>

\* The component before any image URL is given: the empty state is rendered.
\* The behaviour of a selection-bounded editor is followed for bgSteps user
\* steps.
EdInitial(variants, bgSteps) ==
  /\ variant \in variants
  /\ stepLimit = IF variant = MovableBackground THEN bgSteps ELSE MaxSelSteps
  /\ \E config \in EdConfigs : /\ aspectRatio = config.aspectRatio
                               /\ initialCoverage = config.initialCoverage
  /\ imageUrl = 0
  /\ imageState = "none"
  /\ naturalSize = NoSize
  /\ matrix = IdentityMatrix
  /\ selection = ZeroRect
  /\ allowScaleTransform = FALSE
  /\ isProgrammaticUpdate = FALSE
  /\ scaleTransformTimer = FALSE
  /\ watchers = [k \in 1..MaxLoads |-> "idle"]
  /\ microtasks = <<>>
  /\ activePointers = <<>>
  /\ prevTwoFingerCenter = None
  /\ wheelTimeout = FALSE
  /\ transition = FALSE
  /\ cleanupTimers = {}
  /\ cleanupListeners = {}
  /\ snapCount = 0
  /\ snapRuns = 0
  /\ animation = None
  /\ animReads = 0
  /\ previewTimers = 0
  /\ rasterJobs = <<>>
  /\ updateCanvas = None
  /\ currentPreviewCanvas = None
  /\ loadErrors = 0
  /\ lastChange = None
  /\ lastSnap = None
  /\ lastTransform = None
  /\ changeEmits = 0
  /\ steps = 0
EdInit(variants) == EdInitial(variants, MaxBgSteps)

\* Events are handled to completion: a task (user event, timer, image load)
\* starts only when no microtask is pending.
Idle == microtasks = <<>>
Task(k, kind) == [k |-> k, kind |-> kind]

\* selection.$change(target): a cancelable 'change' event is dispatched to the
\* component's handler, and the target applies unless the handler prevented it.
\* An emitted 'change' adds to changeEmits, a started $toCanvas to rasterJobs.
\* The canvas a $toCanvas call will resolve with: `of` is the selection it is
\* made for, width and height are the options the caller computes from the
\* selection element and the image's scale at the time of the call.
RasterJob(of, sel, m) ==
  [of |-> of, width |-> RDiv(sel.width, m.a), height |-> RDiv(sel.height, m.a)]

Change(target, refsBound, programmatic, byUser) ==
  \E out \in {handleSelectionChange(target, refsBound, programmatic)} :
    /\ selection' = IF out.prevented THEN selection ELSE target
    /\ lastChange' = Some(ChangeRecord(target, maxSelection, out, byUser, refsBound))
    /\ changeEmits' = changeEmits + (IF out.emitChange THEN 1 ELSE 0)
    /\ rasterJobs' = IF out.raster
                     THEN Append(rasterJobs, RasterJob(target, selection, matrix))
                     ELSE rasterJobs

\* props.imageUrl becomes a new non-empty URL (replacing an image counts as one
\* of the user's steps): the watcher's synchronous part
\* runs, the template renders (on the first URL the canvas, image and selection
\* elements are created, and the selection applies its initial-coverage before
\* the template refs are set), and the <img> starts loading.
SetImageUrl ==
  /\ Idle
  /\ imageUrl < MaxLoads
  /\ imageUrl > 0 => steps < MaxSteps
  /\ steps' = IF imageUrl > 0 THEN steps + 1 ELSE steps
  /\ LET k == imageUrl + 1
     IN  /\ imageUrl' = k
         /\ imageState' = "loading"
         /\ watchers' = [watchers EXCEPT ![k] = "tick1"]
         /\ microtasks' = <<Task(k, "tick1")>>
         /\ allowScaleTransform' = (variant # MovableBackground)
         /\ scaleTransformTimer' = FALSE
         /\ IF imageUrl = 0
            THEN Change(InitialCoverageSelection, FALSE, isProgrammaticUpdate, FALSE)
            ELSE UNCHANGED <<selection, changeVars, rasterJobs>>
  /\ UNCHANGED <<fitVars, props, loadErrors, imageVars, isProgrammaticUpdate, pointerVars,
                 wheelTimeout, snapVars, previewTimers, updateCanvas, currentPreviewCanvas,
                 lastTransform>>

\* The watcher resumes after `await nextTick()`.
Tick1 ==
  /\ microtasks # <<>>
  /\ Head(microtasks).kind = "tick1"
  /\ LET k == Head(microtasks).k
     IN  IF variant = CropperEditor
         THEN /\ watchers' = [watchers EXCEPT ![k] = "done"]
              /\ previewTimers' = previewTimers + 1
         ELSE /\ watchers' = [watchers EXCEPT ![k] = "ready"]
              /\ UNCHANGED previewTimers
  /\ microtasks' = Tail(microtasks)
  /\ UNCHANGED <<fitVars, props, imageUrl, imageState, loadErrors, imageVars, selection,
                 gateVars, pointerVars, wheelTimeout, snapVars, rasterJobs, updateCanvas,
                 currentPreviewCanvas,
                 changeVars, lastTransform, steps>>

\* The watchers awaiting image.$ready(), in the order they started waiting.
ReadyWatchers ==
  SelectSeq([k \in 1..MaxLoads |-> Task(k, "tick2")], LAMBDA t : watchers[t.k] = "ready")

\* A variant of the handler below that lets every event pass.
handleImageTransformOpen == TRUE

\* handleImageTransform on a 'transform' event: TRUE when it lets the event pass.
\* MovableBackgroundImageEditor binds no handler.
handleImageTransform == variant = MovableBackground \/ allowScaleTransform

\* CropperEditor starts its 500 ms timer on the first transform event of the window.
TransformTimerAfterEvent ==
  scaleTransformTimer \/ (variant = CropperEditor /\ allowScaleTransform)

\* The <img> fires 'load': the image centres itself (a transform event), and
\* every pending $ready() promise resolves.
ImageLoad(nat) ==
  /\ Idle
  /\ imageState = "loading"
  /\ imageState' = "complete"
  /\ naturalSize' = nat
  /\ matrix' = IF handleImageTransform THEN ContainMatrix(nat) ELSE matrix
  /\ scaleTransformTimer' = TransformTimerAfterEvent
  /\ watchers' = [k \in 1..MaxLoads |-> IF watchers[k] = "ready" THEN "tick2" ELSE watchers[k]]
  /\ microtasks' = ReadyWatchers
  /\ UNCHANGED <<fitVars, props, imageUrl, loadErrors, selection, allowScaleTransform,
                 isProgrammaticUpdate, pointerVars, wheelTimeout, snapVars, previewVars,
                 changeVars, lastTransform, steps>>

\* The <img> fires 'error': every pending $ready() promise rejects, and each
\* waiting watcher emits 'load-error'.
ImageError ==
  /\ Idle
  /\ imageState = "loading"
  /\ imageState' = "broken"
  /\ naturalSize' = NoSize
  /\ watchers' = [k \in 1..MaxLoads |-> IF watchers[k] = "ready" THEN "failed" ELSE watchers[k]]
  /\ loadErrors' = loadErrors + Cardinality({k \in 1..MaxLoads : watchers[k] = "ready"})
  /\ UNCHANGED <<fitVars, props, imageUrl, matrix, selection, gateVars, microtasks,
                 pointerVars, wheelTimeout, snapVars, previewVars, changeVars,
                 lastTransform, steps>>

\* The watcher resumes after $ready() and the second nextTick: the window
\* closes and fitSelectionToImage runs.
Tick2 ==
  /\ microtasks # <<>>
  /\ Head(microtasks).kind = "tick2"
  /\ \E result \in {calculateFitSelection(imageRect, CanvasRect, aspectRatio,
                                          initialCoverage)} :
     LET k == Head(microtasks).k
         flagged == variant # MovableBackground
     IN  /\ watchers' = [watchers EXCEPT ![k] = "done"]
         /\ allowScaleTransform' = (variant = MovableBackground /\ allowScaleTransform)
         /\ IF result = None
            THEN /\ microtasks' = Tail(microtasks)
                 /\ UNCHANGED <<selection, changeVars, rasterJobs, isProgrammaticUpdate>>
            ELSE /\ Change(result[1], TRUE, flagged \/ isProgrammaticUpdate, FALSE)
                 /\ isProgrammaticUpdate' = (flagged \/ isProgrammaticUpdate)
                 /\ microtasks' = Tail(microtasks) \o
                      (IF flagged THEN <<Task(k, "resetProgrammatic")>> ELSE <<>>)
  /\ UNCHANGED <<fitVars, props, imageUrl, imageState, loadErrors, imageVars,
                 scaleTransformTimer, pointerVars, wheelTimeout, snapVars, previewTimers,
                 updateCanvas, currentPreviewCanvas, lastTransform, steps>>

\* The nextTick callback of fitSelectionToImage.
ResetProgrammatic ==
  /\ microtasks # <<>>
  /\ Head(microtasks).kind = "resetProgrammatic"
  /\ microtasks' = Tail(microtasks)
  /\ isProgrammaticUpdate' = FALSE
  /\ UNCHANGED <<fitVars, props, loadVars, imageVars, selection, allowScaleTransform,
                 scaleTransformTimer, pointerVars, wheelTimeout, snapVars, previewVars,
                 changeVars, lastTransform, steps>>

\* A user gesture may start while the editor is rendered and idle.
UserMay == Idle /\ Mounted /\ steps < MaxSteps

\* Image-bounded mode with validation (MovableCroppingEditor.vue,
\* CropperEditor.vue): a gesture on the selection proposes rectangle c.
UserSelectionChange(c) ==
  /\ UserMay
  /\ variant \in {MovableCropping, CropperEditor}
  /\ c # selection
  /\ Change(c, TRUE, isProgrammaticUpdate, TRUE)
  /\ steps' = steps + 1
  /\ UNCHANGED <<fitVars, props, loadVars, imageVars, gateVars, microtasks, pointerVars,
                 wheelTimeout, snapVars, previewTimers, updateCanvas, currentPreviewCanvas,
                 lastTransform>>

\* The record kept of a transform proposed for the image: the candidate
\* matrix, whether it was applied, whether an image was loaded, and whether
\* the image under the candidate contains the selection.
TransformRecord(candidate, applied) ==
  [candidate |-> candidate, applied |-> applied, loaded |-> imageState = "complete",
   contains |-> Contains(ImageRectOf(naturalSize, candidate), selectionRect)]

\* The matrices one gesture on the image proposes: a pan or a zoom step.
PanStep == <<Num(30), Num(-45)>>
WheelFactors == {Rat(9, 10), Rat(11, 10)}
ImageGestures(m) ==
  {MoveMatrix(m, PanStep[1], PanStep[2])} \cup {ZoomMatrix(m, f) : f \in WheelFactors}

\* Image-bounded mode: a gesture on the image raises a 'transform' event.
UserImageTransform(candidate) ==
  /\ UserMay
  /\ variant \in ImageBoundedVariants
  /\ matrix' = IF handleImageTransform THEN candidate ELSE matrix
  /\ scaleTransformTimer' = TransformTimerAfterEvent
  /\ lastTransform' = Some(TransformRecord(candidate, handleImageTransform))
  /\ steps' = steps + 1
  /\ UNCHANGED <<fitVars, props, loadVars, naturalSize, selection, allowScaleTransform,
                 isProgrammaticUpdate, microtasks, pointerVars, wheelTimeout, snapVars,
                 previewVars, changeVars>>

\* CropperEditor: the 500 ms timer closes the window. It was started after the
\* watcher of the current URL set its 200 ms timeout (a new URL clears it), so
\* every pending 200 ms timeout is due before it.
Timer500Fires ==
  /\ Idle
  /\ scaleTransformTimer
  /\ previewTimers = 0
  /\ allowScaleTransform' = FALSE
  /\ scaleTransformTimer' = FALSE
  /\ UNCHANGED <<fitVars, props, loadVars, imageVars, selection, isProgrammaticUpdate,
                 microtasks, pointerVars, wheelTimeout, snapVars, previewVars, changeVars,
                 lastTransform, steps>>

\* CropperEditor: a 200 ms timeout of the watcher starts a rasterization of
\* the selection as it is then, if the selection and image elements exist.
PreviewTimerFires ==
  /\ Idle
  /\ previewTimers > 0
  /\ previewTimers' = previewTimers - 1
  /\ rasterJobs' = IF Mounted
                   THEN Append(rasterJobs, RasterJob(selection, selection, matrix))
                   ELSE rasterJobs
  /\ UNCHANGED <<fitVars, props, loadVars, imageVars, selection, gateVars, microtasks,
                 pointerVars, wheelTimeout, snapVars, updateCanvas, currentPreviewCanvas,
                 changeVars, lastTransform, steps>>

\* A variant of the action below whose container ignores 'update-canvas'
\* while it has no image.
RasterDoneGuarded(i) ==
  /\ Idle
  /\ i \in DOMAIN rasterJobs
  /\ rasterJobs' = SubSeq(rasterJobs, 1, i - 1) \o SubSeq(rasterJobs, i + 1, Len(rasterJobs))
  /\ updateCanvas' = Some(rasterJobs[i])
  /\ currentPreviewCanvas' = IF Mounted THEN Some(rasterJobs[i]) ELSE currentPreviewCanvas
  /\ UNCHANGED <<fitVars, props, loadVars, imageVars, selection, gateVars, microtasks,
                 pointerVars, wheelTimeout, snapVars, previewTimers, changeVars,
                 lastTransform, steps>>

\* CropperEditor: the i-th pending $toCanvas promise resolves, 'update-canvas'
\* is emitted with its canvas, and the container's handleCanvasUpdate stores
\* it. Nothing in the component orders the promises.
RasterDone(i) ==
  /\ Idle
  /\ i \in DOMAIN rasterJobs
  /\ rasterJobs' = SubSeq(rasterJobs, 1, i - 1) \o SubSeq(rasterJobs, i + 1, Len(rasterJobs))
  /\ updateCanvas' = Some(rasterJobs[i])
  /\ currentPreviewCanvas' = Some(rasterJobs[i])
  /\ UNCHANGED <<fitVars, props, loadVars, imageVars, selection, gateVars, microtasks,
                 pointerVars, wheelTimeout, snapVars, previewTimers, changeVars,
                 lastTransform, steps>>

\* Pointer positions (clientX, clientY).
Pos(x, y) == [x |-> x, y |-> y]
PointerPositions == {Pos(Num(100), Num(100)), Pos(Num(140), Num(100)), Pos(Num(100), Num(160))}
PointerIds == 1..MaxPointers

\* getTwoFingerCenter over a pointer map.
getTwoFingerCenter(pointers) ==
  IF Cardinality(DOMAIN pointers) # 2 THEN None
  ELSE LET p1 == CHOOSE i \in DOMAIN pointers : TRUE
           p2 == CHOOSE i \in DOMAIN pointers : i # p1
       IN  Some(Pos(RHalf(RAdd(pointers[p1].x, pointers[p2].x)),
                    RHalf(RAdd(pointers[p1].y, pointers[p2].y))))

\* A variant of the action below that resets the recorded midpoint for the
\* first pointer only, not for a third one.
PointerDownKeepsCenter(p, pos) ==
  /\ UserMay
  /\ variant \in {MovableCroppingSnap, MovableBackground}
  /\ p \notin DOMAIN activePointers
  /\ activePointers' = (activePointers @@ (p :> pos))
  /\ prevTwoFingerCenter' =
       IF variant = MovableBackground
       THEN (IF Cardinality(DOMAIN activePointers') = 2
             THEN getTwoFingerCenter(activePointers')
             ELSE IF Cardinality(DOMAIN activePointers') = 1 THEN None
                  ELSE prevTwoFingerCenter)
       ELSE prevTwoFingerCenter
  /\ steps' = steps + 1
  /\ UNCHANGED <<fitVars, props, loadVars, imageVars, selection, gateVars, microtasks,
                 wheelTimeout, snapVars, previewVars, changeVars, lastTransform>>

\* onPointerDown (part_006 keeps the ids only: DOMAIN activePointers).
PointerDown(p, pos) ==
  /\ UserMay
  /\ variant \in {MovableCroppingSnap, MovableBackground}
  /\ p \notin DOMAIN activePointers
  /\ activePointers' = (activePointers @@ (p :> pos))
  /\ prevTwoFingerCenter' =
       IF variant = MovableBackground THEN getTwoFingerCenter(activePointers')
       ELSE prevTwoFingerCenter
  /\ steps' = steps + 1
  /\ UNCHANGED <<fitVars, props, loadVars, imageVars, selection, gateVars, microtasks,
                 wheelTimeout, snapVars, previewVars, changeVars, lastTransform>>

\* The record kept of a run of the boundary correction.
SnapRecord(trigger, pointers, changed) ==
  [trigger |-> trigger,
   pointersActive |-> DOMAIN pointers # {},
   windowOpen |-> allowScaleTransform,
   changed |-> changed]

\* One run of the component's boundary correction (snapSelectionToBoundary in
\* part_006, snapToBoundary in MovableBackgroundImageEditor), with `pointers`
\* the pointer map at the time of the run.
RunSnap(trigger, pointers) ==
  IF variant = MovableBackground
  THEN \E shown \in DisplayedMatrices :
       \E r \in {snapToBoundary(selectionRect, ImageRectOf(naturalSize, shown))} :
         /\ lastSnap' = Some(SnapRecord(trigger, pointers, r.changed))
         /\ snapRuns' = snapRuns + 1
         /\ animation' = IF r.changed THEN Some([from |-> shown, to |-> r.matrix])
                         ELSE animation
         /\ animReads' = animReads + (IF shown # matrix THEN 1 ELSE 0)
         /\ matrix' = IF r.changed THEN r.matrix ELSE matrix
         /\ transition' = (r.changed \/ transition)
         /\ snapCount' = snapCount + (IF r.changed THEN 1 ELSE 0)
         /\ cleanupListeners' = cleanupListeners \cup (IF r.changed THEN {snapCount + 1} ELSE {})
         /\ cleanupTimers' = cleanupTimers \cup (IF r.changed THEN {snapCount + 1} ELSE {})
         /\ UNCHANGED <<selection, changeVars, rasterJobs>>
  ELSE \E r \in {snapSelectionToBoundary} :
         /\ lastSnap' = Some(SnapRecord(trigger, pointers, r.changed))
         /\ snapRuns' = snapRuns + 1
         /\ IF r.changed
            THEN Change(r.target, TRUE, isProgrammaticUpdate, FALSE)
            ELSE UNCHANGED <<selection, changeVars, rasterJobs>>
         /\ transition' = (r.changed \/ transition)
         /\ snapCount' = snapCount + (IF r.changed THEN 1 ELSE 0)
         /\ cleanupListeners' = cleanupListeners \cup (IF r.changed THEN {snapCount + 1} ELSE {})
         /\ cleanupTimers' = cleanupTimers \cup (IF r.changed THEN {snapCount + 1} ELSE {})
         /\ UNCHANGED <<matrix, animation, animReads>>

\* A variant of the test below that holds after every release.
AllPointersReleasedAlways(rest) == TRUE

\* `activePointers.size === 0` in onPointerUp: no pointer is tracked any more.
AllPointersReleased(rest) == DOMAIN rest = {}

\* onPointerUp, for pointerup and pointercancel alike.
PointerUp(p) ==
  /\ Idle
  /\ p \in DOMAIN activePointers
  /\ LET rest == [q \in DOMAIN activePointers \ {p} |-> activePointers[q]]
     IN  /\ activePointers' = rest
         /\ prevTwoFingerCenter' =
              IF variant = MovableBackground /\ Cardinality(DOMAIN rest) < 2
              THEN None ELSE prevTwoFingerCenter
         /\ IF AllPointersReleased(rest)
            THEN RunSnap("pointerup", rest)
            ELSE UNCHANGED <<snapVars, matrix, selection, changeVars, rasterJobs>>
  /\ UNCHANGED <<fitVars, props, loadVars, naturalSize, gateVars, microtasks, wheelTimeout,
                 previewTimers, updateCanvas, currentPreviewCanvas, lastTransform, steps>>

\* A variant of the action below for a timer that stays armed after it fires.
WheelTimerFiresRepeating ==
  /\ Idle
  /\ wheelTimeout
  /\ wheelTimeout' = TRUE
  /\ RunSnap("wheel", activePointers)
  /\ UNCHANGED <<fitVars, props, loadVars, naturalSize, gateVars, microtasks, pointerVars,
                 previewTimers, updateCanvas, currentPreviewCanvas, lastTransform, steps>>

\* The wheel-debounce timer fires.
WheelTimerFires ==
  /\ Idle
  /\ wheelTimeout
  /\ wheelTimeout' = FALSE
  /\ RunSnap("wheel", activePointers)
  /\ UNCHANGED <<fitVars, props, loadVars, naturalSize, gateVars, microtasks, pointerVars,
                 previewTimers, updateCanvas, currentPreviewCanvas, lastTransform, steps>>

\* 'transitionend' on the corrected element: every registered cleanup runs.
TransitionEnd ==
  /\ Idle
  /\ transition
  /\ cleanupListeners # {}
  /\ transition' = FALSE
  /\ animation' = None
  /\ cleanupListeners' = {}
  /\ UNCHANGED <<fitVars, props, loadVars, imageVars, selection, gateVars, microtasks,
                 pointerVars, wheelTimeout, cleanupTimers, snapCount, snapRuns, lastSnap, animReads,
                 previewVars,
                 changeVars, lastTransform, steps>>

\* A variant of the action below whose cleanup leaves style.transition set.
CleanupTimerFiresKeepsTransition(n) ==
  /\ Idle
  /\ n \in cleanupTimers
  /\ \A m \in cleanupTimers : n <= m
  /\ cleanupTimers' = cleanupTimers \ {n}
  /\ cleanupListeners' = cleanupListeners \ {n}
  /\ UNCHANGED <<fitVars, props, loadVars, imageVars, selection, gateVars, microtasks,
                 pointerVars, wheelTimeout, transition, animation, snapCount, snapRuns,
                 lastSnap, animReads, previewVars, changeVars, lastTransform, steps>>

\* The fallback timeout of correction n runs its cleanup. The fallback
\* timeouts have one delay: they are due in the order they were set.
CleanupTimerFires(n) ==
  /\ Idle
  /\ n \in cleanupTimers
  /\ \A m \in cleanupTimers : n <= m
  /\ cleanupTimers' = cleanupTimers \ {n}
  /\ cleanupListeners' = cleanupListeners \ {n}
  /\ transition' = FALSE
  /\ animation' = None
  /\ UNCHANGED <<fitVars, props, loadVars, imageVars, selection, gateVars, microtasks,
                 pointerVars, wheelTimeout, snapCount, snapRuns, lastSnap, animReads,
                 previewVars, changeVars, lastTransform, steps>>

\* part_006: a tracked pointer drags or resizes the selection to rectangle c.
\* No @change handler is bound: the change applies.
SelectionDrag(c) ==
  /\ UserMay
  /\ variant = MovableCroppingSnap
  /\ DOMAIN activePointers # {}
  /\ c # selection
  /\ Change(c, TRUE, isProgrammaticUpdate, TRUE)
  /\ steps' = steps + 1
  /\ UNCHANGED <<fitVars, props, loadVars, imageVars, gateVars, microtasks, pointerVars,
                 wheelTimeout, snapVars, previewTimers, updateCanvas, currentPreviewCanvas,
                 lastTransform>>

\* part_006: a wheel event over the selection zooms it to rectangle c, and
\* onWheel restarts the debounce timer.
SelectionWheel(c) ==
  /\ UserMay
  /\ variant = MovableCroppingSnap
  /\ c # selection
  /\ Change(c, TRUE, isProgrammaticUpdate, TRUE)
  /\ wheelTimeout' = TRUE
  /\ steps' = steps + 1
  /\ UNCHANGED <<fitVars, props, loadVars, imageVars, gateVars, microtasks, pointerVars,
                 snapVars, previewTimers, updateCanvas, currentPreviewCanvas, lastTransform>>

\* The scale factors a pinch step can apply (1: the fingers keep their distance).
PinchFactors == {Rat(1, 2), Rat(199, 200), One, Num(2)}

\* A variant of the handler below that keeps the midpoint it recorded first.
TrackedPointerMoveStaleCenter(p, pos, f) ==
  /\ pos # activePointers[p]
  /\ LET n == Cardinality(DOMAIN activePointers)
         moved == [activePointers EXCEPT ![p] = pos]
         native == IF n = 1
                   THEN MoveMatrix(matrix, RDiv(RSub(pos.x, activePointers[p].x), globalScale),
                                   RDiv(RSub(pos.y, activePointers[p].y), globalScale))
                   ELSE ZoomMatrix(matrix, f)
         currentCenter == getTwoFingerCenter(moved)
         extra == n = 2 /\ currentCenter # None /\ prevTwoFingerCenter # None
                  /\ RGt(globalScale, Zero)
         candidate ==
           IF extra
           THEN MoveMatrix(native,
                  RDiv(RSub(currentCenter[1].x, prevTwoFingerCenter[1].x), globalScale),
                  RDiv(RSub(currentCenter[1].y, prevTwoFingerCenter[1].y), globalScale))
           ELSE native
     IN  /\ n = 1 => f = One
         /\ activePointers' = moved
         /\ prevTwoFingerCenter' =
              IF n = 2 THEN (IF prevTwoFingerCenter = None THEN currentCenter
                             ELSE prevTwoFingerCenter)
              ELSE None
         /\ matrix' = candidate
         /\ lastTransform' = Some(TransformRecord(candidate, TRUE))

\* onPointerMove for a tracked pointer p that moves to pos: the library pans
\* the image with one pointer and scales it by f with more, and the handler
\* adds the two-finger pan.
TrackedPointerMove(p, pos, f) ==
  /\ pos # activePointers[p]
  /\ LET n == Cardinality(DOMAIN activePointers)
         moved == [activePointers EXCEPT ![p] = pos]
         native == IF n = 1
                   THEN MoveMatrix(matrix, RDiv(RSub(pos.x, activePointers[p].x), globalScale),
                                   RDiv(RSub(pos.y, activePointers[p].y), globalScale))
                   ELSE ZoomMatrix(matrix, f)
         currentCenter == getTwoFingerCenter(moved)
         extra == n = 2 /\ currentCenter # None /\ prevTwoFingerCenter # None
                  /\ RGt(globalScale, Zero)
         candidate ==
           IF extra
           THEN MoveMatrix(native,
                  RDiv(RSub(currentCenter[1].x, prevTwoFingerCenter[1].x), globalScale),
                  RDiv(RSub(currentCenter[1].y, prevTwoFingerCenter[1].y), globalScale))
           ELSE native
     IN  /\ n = 1 => f = One
         /\ activePointers' = moved
         /\ prevTwoFingerCenter' = IF n = 2 THEN currentCenter ELSE None
         /\ matrix' = candidate
         /\ lastTransform' = Some(TransformRecord(candidate, TRUE))

\* MovableBackgroundImageEditor: a 'pointermove' event of pointer p at pos
\* reaches the window. No transform is validated. The listener is registered
\* while a pointer is tracked; the event of a pointer that is not tracked
\* (`activePointers.has(event.pointerId)` fails) is dropped.
PointerMove(p, pos, f) ==
  /\ UserMay
  /\ variant = MovableBackground
  /\ IF p \in DOMAIN activePointers
     THEN TrackedPointerMove(p, pos, f)
     ELSE /\ DOMAIN activePointers # {}
          /\ f = One
          /\ UNCHANGED <<activePointers, prevTwoFingerCenter, matrix, lastTransform>>
  /\ steps' = steps + 1
  /\ UNCHANGED <<fitVars, props, loadVars, naturalSize, selection, gateVars, microtasks,
                 wheelTimeout, snapVars, previewVars, changeVars>>

\* MovableBackgroundImageEditor: a wheel event over the canvas zooms the image
\* by one scale step, and onWheel restarts the debounce timer.
ImageWheel(f) ==
  /\ UserMay
  /\ variant = MovableBackground
  /\ matrix' = ZoomMatrix(matrix, f)
  /\ lastTransform' = Some(TransformRecord(ZoomMatrix(matrix, f), TRUE))
  /\ wheelTimeout' = TRUE
  /\ steps' = steps + 1
  /\ UNCHANGED <<fitVars, props, loadVars, naturalSize, selection, gateVars, microtasks,
                 pointerVars, snapVars, previewVars, changeVars>>

----------------------------------------------------------------------------
(* The specifications of the editors                                       *)

ExportIdle == exportArgs = None /\ exportPc = "idle" /\ exportOut = None
\* checkHeicSupport is never called.
MaxDetections == 2
Detections == 1..MaxDetections
NotCalled ==
  [pc |-> "idle", queried |-> FALSE, testNo |-> 0, resolved |-> FALSE, img |-> FALSE,
   timer |-> FALSE, result |-> None]
HeicIdle ==
  /\ cachedSupport = None
  /\ heicEnv = [imageDecoder |-> "none", decodes |-> FALSE]
  /\ detections = [d \in Detections |-> NotCalled]

\* No useCropper instance takes part.
CropIdle ==
  /\ cropImpl = "none" /\ maxFileSize = 0 /\ isHeicSupported = FALSE
  /\ cropImageUrl = 0 /\ imageName = "" /\ imageMimeType = ""
  /\ urlLog = <<>> /\ lastLoad = None /\ disposed = FALSE
EdFitIdle ==
  /\ fitArgs = None /\ fitResult = None /\ fitCalled = FALSE
  /\ ExportIdle /\ CropIdle /\ HeicIdle

\* SpecSel: the editors that validate every selection change.
InitSel == EdInit({MovableCropping, CropperEditor}) /\ EdFitIdle

NextSel ==
  \/ SetImageUrl
  \/ Tick1
  \/ \E nat \in NaturalSizes : ImageLoad(nat)
  \/ ImageError
  \/ Tick2
  \/ ResetProgrammatic
  \/ \E c \in Candidates : UserSelectionChange(c)
  \/ \E m \in ImageGestures(matrix) : UserImageTransform(m)
  \/ Timer500Fires
  \/ PreviewTimerFires
  \/ \E i \in 1..MaxRasterJobs : RasterDone(i)

SpecSel == InitSel /\ [][NextSel]_vars

\* SpecSnap: the two MovableCroppingEditor variants, rejecting and snapping.
InitSnap == EdInit({MovableCropping, MovableCroppingSnap}) /\ EdFitIdle

NextSnap ==
  \/ SetImageUrl
  \/ Tick1
  \/ \E nat \in NaturalSizes : ImageLoad(nat)
  \/ ImageError
  \/ Tick2
  \/ ResetProgrammatic
  \/ \E c \in Candidates : UserSelectionChange(c)
  \/ \E m \in ImageGestures(matrix) : UserImageTransform(m)
  \/ \E p \in PointerIds : PointerDown(p, Pos(Zero, Zero))
  \/ \E c \in Candidates : SelectionDrag(c)
  \/ \E c \in Candidates : SelectionWheel(c)
  \/ \E p \in PointerIds : PointerUp(p)
  \/ WheelTimerFires
  \/ TransitionEnd
  \/ \E n \in 1..(MaxSelSteps + 1) : CleanupTimerFires(n)

SpecSnap == InitSnap /\ [][NextSnap]_vars

\* SpecBg: the selection-bounded editor.
InitBg == EdInit({MovableBackground}) /\ EdFitIdle

NextBg ==
  \/ SetImageUrl
  \/ Tick1
  \/ \E nat \in NaturalSizes : ImageLoad(nat)
  \/ ImageError
  \/ Tick2
  \/ \E p \in PointerIds, pos \in PointerPositions : PointerDown(p, pos)
  \/ \E p \in PointerIds, pos \in PointerPositions, f \in PinchFactors : PointerMove(p, pos, f)
  \/ \E f \in WheelFactors : ImageWheel(f)
  \/ \E p \in PointerIds : PointerUp(p)
  \/ WheelTimerFires
  \/ TransitionEnd
  \/ \E n \in 1..(MaxBgSteps + 1) : CleanupTimerFires(n)

SpecBg == InitBg /\ [][NextBg]_vars

\* SpecPan: the selection-bounded editor under pointer gestures only, followed
\* for MaxPanSteps user steps after its image has loaded.
InitPan == EdInitial({MovableBackground}, MaxPanSteps) /\ EdFitIdle

NextPan ==
  \/ SetImageUrl /\ imageUrl = 0
  \/ Tick1
  \/ \E nat \in NaturalSizes : ImageLoad(nat)
  \/ Tick2
  \/ \E p \in PointerIds, pos \in PointerPositions : PointerDown(p, pos)
  \/ \E p \in PointerIds, pos \in PointerPositions, f \in PinchFactors : PointerMove(p, pos, f)
  \/ \E p \in PointerIds : PointerUp(p)

SpecPan == InitPan /\ [][NextPan]_vars

\* SpecBgFair: the same editor under the event loop's scheduling. A queued
\* microtask runs, and a timeout that was set and not cleared fires. Nothing
\* is assumed of 'transitionend', nor of the user, the network or the wheel
\* timer. Tick2 is enabled exactly when Tick2Enabled holds, and a behaviour
\* has finitely many Tick2 steps (one per watcher run): weak fairness of
\* Tick2 is stated through its enabling condition.
FallbackTimerFires == \E n \in 1..(MaxBgSteps + 1) : CleanupTimerFires(n)
Tick2Enabled == microtasks # <<>> /\ Head(microtasks).kind = "tick2"
SpecBgFair ==
  /\ InitBg
  /\ [][NextBg]_vars
  /\ WF_vars(Tick1)
  /\ []<>~Tick2Enabled
  /\ WF_vars(FallbackTimerFires)

\* SpecSelFair: the validating editors under the event loop's scheduling, with
\* an image request that always ends, in 'load' or in 'error'. Queued
\* microtasks run, and the 500 ms and 200 ms timeouts, once set, fire.
\* ImageLoad and ImageError are enabled exactly when ImageRequestPending
\* holds, and a behaviour has finitely many of their steps (one per URL):
\* their weak fairness is stated through that enabling condition.
ImageRequestPending == Idle /\ imageState = "loading"
SpecSelFair ==
  /\ InitSel
  /\ [][NextSel]_vars
  /\ WF_vars(Tick1)
  /\ []<>~Tick2Enabled
  /\ WF_vars(ResetProgrammatic)
  /\ []<>~ImageRequestPending
  /\ WF_vars(Timer500Fires)
  /\ WF_vars(PreviewTimerFires)

----------------------------------------------------------------------------
(* SpecFit: calculateFitSelection over bounded inputs                      *)

\* Bounds of the input grid.
FitMaxDim        == 8     \* image sizes 100, 200, ..., 100 * FitMaxDim
FitMaxRatio      == 3     \* aspect ratios p/q with p, q in 1..FitMaxRatio
FitCoverageSteps == 10    \* coverages k / FitCoverageSteps

\* Image boxes: degenerate (zero, negative) and positive sizes, among them the
\* boxes of useCropperCalculation.spec.ts.
FitLefts    == {Num(0), Num(100)}
FitTops     == {Num(0), Num(50)}
FitSizes    == {Num(-1), Num(0), Num(10)} \cup {Num(100 * k) : k \in 1..FitMaxDim}
\* Container boxes: two positive ones, and one of zero width.
FitCanvases == {DOMRect(Num(0), Num(0), Num(600), Num(600)),
                DOMRect(Num(20), Num(10), Num(900), Num(700)),
                DOMRect(Num(20), Num(10), Num(0), Num(700))}
\* aspectRatio > 0: portrait, square, landscape.
FitRatios   == {Rat(9, 16), Rat(16, 9)}
                 \cup {Rat(p, q) : p \in 1..FitMaxRatio, q \in 1..FitMaxRatio}
\* coverage > 0: the documented range (0, 1], and 3/2 beyond it.
FitCoverages == {Rat(7, 10), Rat(3, 2)}
                 \cup {Rat(k, FitCoverageSteps) : k \in 1..FitCoverageSteps}

FitInputs ==
  [imageRect : {DOMRect(l, t, w, h) : l \in FitLefts, t \in FitTops,
                                      w \in FitSizes, h \in FitSizes},
   canvasRect : FitCanvases,
   aspectRatio : FitRatios,
   coverage : FitCoverages]

InitFit ==
  /\ fitArgs \in FitInputs
  /\ fitResult = None
  /\ fitCalled = FALSE
  /\ ExportIdle
  /\ CropIdle
  /\ HeicIdle
  /\ EdInit({MovableCropping})
  /\ aspectRatio = Rat(9, 16)

\* One call of calculateFitSelection on the chosen arguments.
CallFit ==
  /\ ~fitCalled
  /\ fitResult' = calculateFitSelection(fitArgs.imageRect, fitArgs.canvasRect,
                                        fitArgs.aspectRatio, fitArgs.coverage)
  /\ fitCalled' = TRUE
  /\ UNCHANGED <<fitArgs, exportVars, cropVars, heicVars, edVars>>

NextFit == CallFit

SpecFit == InitFit /\ [][NextFit]_vars

----------------------------------------------------------------------------
(* Properties of calculateFitSelection (checked under SpecFit)             *)

FitImgX == RSub(fitArgs.imageRect.left, fitArgs.canvasRect.left)
FitImgY == RSub(fitArgs.imageRect.top, fitArgs.canvasRect.top)
FitImgW == fitArgs.imageRect.width
FitImgH == fitArgs.imageRect.height
FitPositiveImage == RGt(FitImgW, Zero) /\ RGt(FitImgH, Zero)
FitValidCoverage == RGt(fitArgs.coverage, Zero) /\ RLe(fitArgs.coverage, One)
\* The width-constrained candidate is too high: the fallback branch is taken.
FitHeightConstrained ==
  RGt(RDiv(RMul(FitImgW, fitArgs.coverage), fitArgs.aspectRatio), FitImgH)

\* C1: for a positive image box, any container box, aspectRatio > 0 and
\* coverage in (0,1], the result is a rectangle (not null) with
\* width/height = aspectRatio, lying within the image box in container-relative
\* coordinates, whose centre is the image box's centre.
C1_FitInsideCentred ==
  (fitCalled /\ FitPositiveImage /\ FitValidCoverage) =>
    /\ Len(fitResult) = 1
    /\ LET r == fitResult[1]
       IN  /\ RDiv(r.width, r.height) = fitArgs.aspectRatio
           /\ RGe(r.x, FitImgX)
           /\ RGe(r.y, FitImgY)
           /\ RLe(RAdd(r.x, r.width), RAdd(FitImgX, FitImgW))
           /\ RLe(RAdd(r.y, r.height), RAdd(FitImgY, FitImgH))
           /\ RAdd(r.x, RHalf(r.width)) = RAdd(FitImgX, RHalf(FitImgW))
           /\ RAdd(r.y, RHalf(r.height)) = RAdd(FitImgY, RHalf(FitImgH))

\* C1 witness: a call on a positive image box offset from a container that is
\* itself offset, in the height-constrained case, has returned a rectangle.
C1_Witness ==
  /\ fitCalled /\ FitPositiveImage /\ FitValidCoverage
  /\ FitHeightConstrained
  /\ fitArgs.canvasRect.left # Zero
  /\ fitArgs.imageRect.left # Zero
  /\ Len(fitResult) = 1

\* The reference rule of C2, written out as the claim states it.
FitReferenceRect ==
  LET w1 == RMul(FitImgW, fitArgs.coverage)
      h1 == RDiv(w1, fitArgs.aspectRatio)
      h2 == RMul(FitImgH, fitArgs.coverage)
      w2 == RMul(h2, fitArgs.aspectRatio)
      w  == IF RGt(h1, FitImgH) THEN w2 ELSE w1
      h  == IF RGt(h1, FitImgH) THEN h2 ELSE h1
  IN  [x |-> RAdd(FitImgX, RHalf(RSub(FitImgW, w))),
       y |-> RAdd(FitImgY, RHalf(RSub(FitImgH, h))),
       width |-> w, height |-> h]

\* The example of useCropperCalculation.spec.ts:20-30.
FitExampleArgs ==
  [imageRect |-> DOMRect(Num(100), Num(50), Num(400), Num(400)),
   canvasRect |-> DOMRect(Num(0), Num(0), Num(600), Num(600)),
   aspectRatio |-> Rat(9, 16),
   coverage |-> Rat(7, 10)]
FitExampleRect ==
  [x |-> Rat(88500, 400), y |-> Num(110), width |-> Rat(1575, 10), height |-> Num(280)]

C4_FitFullCoveragePortrait ==
  (/\ fitCalled
   /\ fitArgs.coverage = One
   /\ FitImgW = FitImgH /\ RGt(FitImgW, Zero)
   /\ RLt(fitArgs.aspectRatio, One)) =>
    /\ Len(fitResult) = 1
    /\ fitResult[1].height = FitImgH
    /\ fitResult[1].width = RMul(fitResult[1].height, fitArgs.aspectRatio)

\* C4 witness: the 500x500 image of the test at coverage 1.0 and ratio 9/16.
C4_Witness ==
  /\ fitCalled
  /\ fitArgs.coverage = One
  /\ FitImgW = Num(500) /\ FitImgH = Num(500)
  /\ fitArgs.aspectRatio = Rat(9, 16)
  /\ Len(fitResult) = 1

----------------------------------------------------------------------------
(* Claims about the editors                                                *)

NoPointerActive == DOMAIN activePointers = {}

\* An image is loaded and its load flow (centring, fitSelectionToImage) is over.
ImageLoaded == imageState = "complete" /\ Idle

MovableCroppingVariants == {MovableCropping, MovableCroppingSnap}

\* C5 (as stated): in image-bounded mode, whenever an image is loaded and no
\* pointer is resizing or moving the selection, the selection lies inside the
\* image's bounds, within the component's epsilon.
C5_SelectionInsideImage ==
  (variant \in MovableCroppingVariants /\ ImageLoaded /\ NoPointerActive)
    => Within(selection, maxSelection, Epsilon)

\* C5 (amended): in image-bounded mode, whenever an image is loaded, no pointer
\* is resizing or moving the selection, and no wheel-debounce timer is pending,
\* the selection lies inside the image's bounds, within the component's epsilon.
C5_SelectionInsideImageWhenSettled ==
  (variant \in MovableCroppingVariants /\ ImageLoaded /\ NoPointerActive /\ ~wheelTimeout)
    => Within(selection, maxSelection, Epsilon)

\* A wheel-triggered correction has brought an offending selection back.
C5_Witness ==
  /\ variant = MovableCroppingSnap
  /\ ImageLoaded /\ NoPointerActive /\ ~wheelTimeout
  /\ lastSnap # None /\ lastSnap[1].changed /\ lastSnap[1].trigger = "wheel"
  /\ Within(selection, maxSelection, Epsilon)

\* C6: in selection-bounded mode, whenever an image is loaded and no pointer is
\* tracked, the image's bounds contain the selection on all four sides (stated
\* here for the states with no wheel-debounce timer pending either).
C6_ImageContainsSelection ==
  (variant = MovableBackground /\ ImageLoaded /\ NoPointerActive /\ ~wheelTimeout)
    => Contains(imageRect, selectionRect)

\* How far outside `max` the farthest edge of `sel` lies (negative: inside).
EdgeExcess(sel, max) ==
  RMax(RMax(RSub(max.x, sel.x), RSub(max.y, sel.y)),
       RMax(RSub(RAdd(sel.x, sel.width), RAdd(max.x, max.width)),
            RSub(RAdd(sel.y, sel.height), RAdd(max.y, max.height))))

\* The last 'change' event came from a user gesture and reached the validator.
ValidatedChange ==
  lastChange # None /\ lastChange[1].byUser /\ lastChange[1].refsBound

\* C7: the validator rejects every candidate with an edge more than epsilon
\* outside the image's bounds, and rejects no candidate whose edges are all
\* within epsilon of them; a candidate exactly on the boundary is accepted.
C7_ValidatorEpsilon ==
  ValidatedChange =>
    /\ RGt(EdgeExcess(lastChange[1].detail, lastChange[1].max), Epsilon)
         => lastChange[1].prevented
    /\ RLe(EdgeExcess(lastChange[1].detail, lastChange[1].max), Epsilon)
         => ~lastChange[1].prevented

\* A candidate with an edge exactly on the loaded image's boundary was accepted.
C7_Witness ==
  /\ ValidatedChange
  /\ imageState = "complete"
  /\ EdgeExcess(lastChange[1].detail, lastChange[1].max) = Zero
  /\ ~lastChange[1].prevented
  /\ selection = lastChange[1].detail

\* C8: a rejected selection change is a strict no-op: the selection keeps its
\* value, no 'change' is emitted, no rasterization starts and no preview is
\* delivered.
C8_RejectedIsNoOp ==
  [][(lastChange' # lastChange /\ lastChange' # None /\ lastChange'[1].prevented)
       => /\ selection' = selection
          /\ changeEmits' = changeEmits
          /\ rasterJobs' = rasterJobs
          /\ previewTimers' = previewTimers
          /\ updateCanvas' = updateCanvas
          /\ currentPreviewCanvas' = currentPreviewCanvas]_vars

\* CropperEditor has rejected a gesture after having emitted for an earlier one.
C8_Witness ==
  /\ variant = CropperEditor
  /\ ValidatedChange
  /\ lastChange[1].prevented
  /\ selection # lastChange[1].detail
  /\ changeEmits > 1

\* C9: in selection-bounded mode every transform proposed for a loaded image is
\* validated: it is applied if and only if the image under the candidate
\* transform contains the selection.
C9_TransformsValidated ==
  (variant = MovableBackground /\ lastTransform # None /\ lastTransform[1].loaded)
    => (lastTransform[1].applied <=> lastTransform[1].contains)

\* C10: boundary correction never runs while a pointer is tracked or while the
\* programmatic-transform window is open.
C10_CorrectionGated ==
  lastSnap # None => ~lastSnap[1].pointersActive /\ ~lastSnap[1].windowOpen

\* C11: in MovableBackgroundImageEditor the set of tracked pointers changes one
\* id at a time, growing on pointerdown (no correction runs) and shrinking on
\* pointerup or pointercancel; the correction runs for a pointer release exactly
\* when that release empties the set, and then exactly once. When the set
\* empties while the image is at rest and already covers the selection, that
\* one run leaves the image transform and the transition alone (delta (0, 0),
\* no animation).
C11_CorrectionOncePerRelease ==
  [][/\ DOMAIN activePointers' # DOMAIN activePointers =>
          \/ /\ \E p \in PointerIds \ DOMAIN activePointers :
                   DOMAIN activePointers' = DOMAIN activePointers \cup {p}
             /\ snapRuns' = snapRuns
          \/ /\ \E p \in DOMAIN activePointers :
                   DOMAIN activePointers' = DOMAIN activePointers \ {p}
             /\ DOMAIN activePointers' # {} => snapRuns' = snapRuns
             /\ DOMAIN activePointers' = {} =>
                  /\ snapRuns' = snapRuns + 1
                  /\ lastSnap' # None /\ lastSnap'[1].trigger = "pointerup"
                  /\ (~transition /\ Contains(imageRect, selectionRect)) =>
                       /\ ~lastSnap'[1].changed
                       /\ matrix' = matrix
                       /\ transition' = transition
                       /\ snapCount' = snapCount
     /\ (snapRuns' # snapRuns /\ lastSnap'[1].trigger = "pointerup") =>
          DOMAIN activePointers # {} /\ DOMAIN activePointers' = {}
    ]_vars

\* Two pointers were pressed and released without a move on the freshly fitted
\* image: one correction ran, and it changed nothing.
C11_Witness ==
  /\ variant = MovableBackground
  /\ imageUrl = 1
  /\ ImageLoaded
  /\ steps = 2
  /\ lastTransform = None
  /\ ~wheelTimeout
  /\ activePointers = <<>>
  /\ snapRuns = 1
  /\ lastSnap # None /\ lastSnap[1].trigger = "pointerup" /\ ~lastSnap[1].changed
  /\ ~transition

\* A wheel event over the canvas of MovableBackgroundImageEditor: a user input
\* that is neither a pointer event nor an image replacement, and zooms the
\* image (the 'pointermove' of a pointer that is not tracked changes nothing).
WheelEventStep ==
  /\ variant = MovableBackground
  /\ steps' = steps + 1
  /\ activePointers' = activePointers
  /\ imageUrl' = imageUrl
  /\ matrix'.a # matrix.a

\* C12: the wheel correction is debounced. A wheel event runs no correction
\* and leaves exactly the one debounce timer pending (the earlier one is
\* cancelled); a correction triggered by the wheel runs only in the step in
\* which the pending timer fires, which is no input event, runs it once and
\* leaves no timer pending. So a burst of wheel events is followed by exactly
\* one correction, after its last event.
C12_WheelDebounce ==
  [][/\ WheelEventStep => wheelTimeout' /\ snapRuns' = snapRuns
     /\ (snapRuns' # snapRuns /\ lastSnap'[1].trigger = "wheel") =>
          /\ snapRuns' = snapRuns + 1
          /\ wheelTimeout /\ ~wheelTimeout'
          /\ steps' = steps
     /\ (wheelTimeout /\ ~wheelTimeout') =>
          /\ snapRuns' = snapRuns + 1
          /\ lastSnap' # None /\ lastSnap'[1].trigger = "wheel"
    ]_vars

\* A burst of two wheel events with no pointer ever pressed, then the timer:
\* one correction ran, after the second event.
C12_Witness ==
  /\ variant = MovableBackground
  /\ imageUrl = 1
  /\ ImageLoaded
  /\ steps = 2
  /\ activePointers = <<>>
  /\ ~wheelTimeout
  /\ snapRuns = 1
  /\ lastSnap # None /\ lastSnap[1].trigger = "wheel"

\* The continuation about to run belongs to a watcher run that a later
\* imageUrl has superseded.
StaleContinuation == microtasks # <<>> /\ Head(microtasks).k < imageUrl

\* C13 (as stated, for the watcher continuations): once a new image is being
\* loaded, a continuation of the watcher run of the previous image changes
\* neither allowScaleTransform, nor the selection, nor the image transform or
\* transition.
C13_SupersededContinuationInert ==
  [][StaleContinuation =>
       /\ allowScaleTransform' = allowScaleTransform
       /\ selection' = selection
       /\ matrix' = matrix
       /\ transition' = transition]_vars

\* A correction of MovableBackgroundImageEditor is animating towards its
\* target, no gesture has changed the transform since, and that target is one
\* the correction would leave alone once reached.
CorrectionInFlight ==
  /\ variant = MovableBackground
  /\ imageState = "complete"
  /\ transition
  /\ animation # None
  /\ matrix = animation[1].to
  /\ ~snapToBoundary(selectionRect, imageRect).changed

\* C14 (as stated): a correction triggered while an earlier one is still
\* animating recomputes the same target: the transform set on the image stays
\* the one the first correction set.
C14_RetriggerKeepsTarget ==
  [][(CorrectionInFlight /\ snapRuns' = snapRuns + 1) => matrix' = matrix]_vars

\* C15 (as stated, for MovableBackgroundImageEditor): the correction is
\* idempotent. Whatever the position and size it starts from, once a
\* correction has run on the image at rest, a second one on the state it set
\* computes no scale change and no translation, and applies nothing.
C15_SnapIdempotent ==
  [][(variant = MovableBackground /\ imageState = "complete" /\ ~transition
        /\ snapRuns' = snapRuns + 1)
       => ~snapToBoundary(SelectionRectOf(selection'),
                          ImageRectOf(naturalSize', matrix')).changed]_vars

\* C16: every correction that sets the transition style is eventually followed
\* by a cleanup that clears it, even if 'transitionend' never fires: whenever
\* the image's transition is set, it is cleared later.
C16_TransitionCleared == transition ~> ~transition

\* The fallback timeout of an earlier correction has cleared the transition
\* while the 'transitionend' listener of a later one is still registered: no
\* 'transitionend' has fired since.
C16_Witness ==
  /\ variant = MovableBackground
  /\ ~transition
  /\ cleanupListeners # {}
  /\ snapCount >= 2

\* C17 (as stated): after every image source change the window for
\* programmatic transforms is closed again: whenever allowScaleTransform is
\* true it is false later, also when the wait for the image fails.
C17_WindowCloses == allowScaleTransform ~> ~allowScaleTransform

\* A pointer or wheel event of the user (an input that is no image replacement).
UserInteractionStep == steps' = steps + 1 /\ imageUrl' = imageUrl

----------------------------------------------------------------------------
(* Export: toCanvas of the Movable editors, and the containers' handlers   *)

\* Math.round: the nearest integer, a half rounds up.
MathRound(x) == Num((2 * x[1] + x[2]) \div (2 * x[2]))
\* Math.floor.
MathFloor(x) == Num(x[1] \div x[2])

\* Math.sqrt, for the squares of rationals (the inputs below yield no other).
ISqrt(n) == CHOOSE k \in 0..n : k * k = n
MathSqrt(x) == Rat(ISqrt(x[1]), ISqrt(x[2]))

\* A variant of toCanvas that truncates the target size.
toCanvasTruncating(selectionRef, imageTransform) ==
  IF selectionRef = None \/ imageTransform = None THEN None
  ELSE LET m == imageTransform[1]
           scale == MathSqrt(RAdd(RMul(m[1], m[1]), RMul(m[2], m[2])))
       IN  Some([width |-> MathFloor(RDiv(selectionRef[1].width, scale)),
                 height |-> MathFloor(RDiv(selectionRef[1].height, scale))])

\* toCanvas of MovableCroppingEditor and MovableBackgroundImageEditor.
\* selectionRef: selectionRef.value, None (null) or Some(selection);
\* imageTransform: None when cropperImageRef.value is null, else
\* Some(image.$getTransform()), the matrix <<a, b, c, d, tx, ty>>.
\* The result is None (undefined) or Some of the size asked of $toCanvas.
toCanvas(selectionRef, imageTransform) ==
  IF selectionRef = None \/ imageTransform = None THEN None
  ELSE LET m == imageTransform[1]
           scale == MathSqrt(RAdd(RMul(m[1], m[1]), RMul(m[2], m[2])))
           targetWidth == MathRound(RDiv(selectionRef[1].width, scale))
           targetHeight == MathRound(RDiv(selectionRef[1].height, scale))
       IN  Some([width |-> targetWidth, height |-> targetHeight])

\* The transforms under test: scale and skew components <<a, b>> whose
\* hypotenuse is rational, with and without a translation.
ExportScaleParts == {<<Rat(4, 5), Zero>>, <<Rat(1, 2), Zero>>, <<Num(2), Zero>>,
                     <<Rat(-4, 5), Zero>>, <<Rat(3, 5), Rat(4, 5)>>,
                     <<Rat(3, 10), Rat(2, 5)>>}
ExportTranslations == {<<Zero, Zero>>, <<Num(-20), Rat(35, 2)>>}
ExportTransforms ==
  {<<ab[1], ab[2], RSub(Zero, ab[2]), ab[1], t[1], t[2]>> :
     ab \in ExportScaleParts, t \in ExportTranslations}
\* The selections under test, in canvas pixels.
ExportWidths  == {Num(100), Rat(101, 2), Rat(405, 4)}
ExportHeights == {Num(180), Rat(567, 4)}
ExportSelections ==
  {Rect(Num(54), Num(30), w, h) : w \in ExportWidths, h \in ExportHeights}

\* The containers: part_009 encodes with getOptimizedBlob, part_010 with one
\* canvas.toBlob call.
ExportContainers == {"part_009", "part_010"}

\* What a canvas.toBlob call hands to its callback: a blob of a type, or null.
ToBlobResults == {"image/webp", "image/png", "null"}

\* canvas.toBlob as part_010 uses it: None (null) or Some(type of the blob).
canvasToBlob(toBlob1) == IF toBlob1 = "null" THEN None ELSE Some(toBlob1)

\* getOptimizedBlob (part_012): the WebP blob if the first call yields one,
\* else the blob of the JPEG call; None when the promise rejects.
getOptimizedBlob(toBlob1, toBlob2) ==
  IF toBlob1 = "image/webp" THEN Some("image/webp")
  ELSE IF toBlob2 THEN Some("image/jpeg")
  ELSE None

ExportInputs ==
  [selectionRef : {None} \cup {Some(sel) : sel \in ExportSelections},
   imageTransform : {None} \cup {Some(m) : m \in ExportTransforms},
   editor : BOOLEAN,      \* the container's ref to the editor component is bound
   container : ExportContainers,
   handler : {"handleDownload", "handleUpload"},
   raster : {"canvas", "rejects"},   \* what selection.$toCanvas settles with
   toBlob1 : ToBlobResults,          \* what the first canvas.toBlob call yields
   toBlob2 : BOOLEAN]                \* the JPEG call of getOptimizedBlob yields a blob

ExportOut(called, request, errorMessage, emitted) ==
  [called |-> called, request |-> request, errorMessage |-> errorMessage,
   emitted |-> emitted]

\* handleDownload / handleUpload up to `await editor.toCanvas()`.
HandleExport ==
  /\ exportPc = "idle"
  /\ IF ~exportArgs.editor
     THEN /\ exportOut' = Some(ExportOut(FALSE, None, TRUE, None))
          /\ exportPc' = "done"
     ELSE /\ exportOut' =
               Some(ExportOut(TRUE, toCanvas(exportArgs.selectionRef,
                                             exportArgs.imageTransform), FALSE, None))
          /\ exportPc' = "canvas"
  /\ UNCHANGED <<fitArgs, fitResult, fitCalled, exportArgs, cropVars, heicVars, edVars>>

\* A variant of the action below without the `if (!canvas)` test.
AfterToCanvasUnchecked ==
  /\ exportPc = "canvas"
  /\ exportPc' = "blob"
  /\ UNCHANGED <<fitArgs, fitResult, fitCalled, exportArgs, exportOut, cropVars, heicVars, edVars>>

\* The handler resumes with the canvas: `if (!canvas)` reports the failure,
\* and so does the catch block when selection.$toCanvas rejects.
AfterToCanvas ==
  /\ exportPc = "canvas"
  /\ IF exportOut[1].request = None \/ exportArgs.raster = "rejects"
     THEN /\ exportOut' = Some([exportOut[1] EXCEPT !.errorMessage = TRUE])
          /\ exportPc' = "done"
     ELSE /\ exportPc' = "blob"
          /\ UNCHANGED exportOut
  /\ UNCHANGED <<fitArgs, fitResult, fitCalled, exportArgs, cropVars, heicVars, edVars>>

\* The event a handler emits with its blob: 'download' carries the blob,
\* 'upload' a File made of it (of the blob's type).
ExportEvent(handler, blob) ==
  [event |-> IF handler = "handleDownload" THEN "download" ELSE "upload", type |-> blob]

\* A variant of the action below that emits whatever the encoder yields.
AfterBlobUnchecked ==
  /\ exportPc = "blob"
  /\ exportOut' =
       Some([exportOut[1] EXCEPT !.emitted =
               Some(ExportEvent(exportArgs.handler, exportArgs.toBlob1))])
  /\ exportPc' = "done"
  /\ UNCHANGED <<fitArgs, fitResult, fitCalled, exportArgs, cropVars, heicVars, edVars>>

\* The blob arrives (getOptimizedBlob in part_009, canvas.toBlob in part_010):
\* without one the failure is reported (in part_009 by the catch block, for
\* getOptimizedBlob rejects), with one the event is emitted.
AfterBlob ==
  /\ exportPc = "blob"
  /\ \E blob \in {IF exportArgs.container = "part_009"
                  THEN getOptimizedBlob(exportArgs.toBlob1, exportArgs.toBlob2)
                  ELSE canvasToBlob(exportArgs.toBlob1)} :
       exportOut' =
         Some(IF blob # None
              THEN [exportOut[1] EXCEPT
                      !.emitted = Some(ExportEvent(exportArgs.handler, blob[1]))]
              ELSE [exportOut[1] EXCEPT !.errorMessage = TRUE])
  /\ exportPc' = "done"
  /\ UNCHANGED <<fitArgs, fitResult, fitCalled, exportArgs, cropVars, heicVars, edVars>>

\* SpecExport: one export on the chosen inputs.
InitExport ==
  /\ exportArgs \in ExportInputs
  /\ exportPc = "idle"
  /\ exportOut = None
  /\ fitArgs = None /\ fitResult = None /\ fitCalled = FALSE
  /\ CropIdle
  /\ HeicIdle
  /\ EdInit({MovableBackground})
  /\ aspectRatio = Rat(9, 16)

NextExport == HandleExport \/ AfterToCanvas \/ AfterBlob

SpecExport == InitExport /\ [][NextExport]_vars

----------------------------------------------------------------------------
(* Claims about the export (checked under SpecExport)                      *)

\* toCanvas was called with a live selection and a live image.
ExportCalledLive ==
  /\ exportOut # None /\ exportOut[1].called
  /\ exportArgs.selectionRef # None /\ exportArgs.imageTransform # None

\* k is x rounded to the nearest integer, halves upwards.
IsRounded(k, x) ==
  /\ k[2] = 1
  /\ RLe(RSub(k, Rat(1, 2)), x)
  /\ RLt(x, RAdd(k, Rat(1, 2)))

\* s is the uniform scale of transform m: s >= 0 and s^2 = a^2 + b^2.
IsScaleOf(s, m) ==
  /\ RGe(s, Zero)
  /\ RMul(s, s) = RAdd(RMul(m[1], m[1]), RMul(m[2], m[2]))

ExportScales == {Rat(1, 2), Rat(4, 5), One, Num(2)}

\* C18: for a live selection of size (w, h) and an image transform
\* [a, b, c, d, tx, ty] of uniform scale s = sqrt(a^2 + b^2), toCanvas asks for
\* a rasterization of exactly (round(w / s), round(h / s)); the request is the
\* one made for the same transform without its translation; and a selection
\* that shows W by H source pixels (w = W * s, h = H * s) asks for W by H at
\* every scale.
C18_ExportSize ==
  ExportCalledLive =>
    LET sel == exportArgs.selectionRef[1]
        m == exportArgs.imageTransform[1]
        request == exportOut[1].request
    IN  /\ request # None
        /\ \E s \in ExportScales :
             /\ IsScaleOf(s, m)
             /\ IsRounded(request[1].width, RDiv(sel.width, s))
             /\ IsRounded(request[1].height, RDiv(sel.height, s))
             /\ \A t \in ExportScales :
                  toCanvas(Some(Rect(sel.x, sel.y, RMul(Num(100), t), RMul(Num(180), t))),
                           Some(<<t, Zero, Zero, t, m[5], m[6]>>))
                    = Some([width |-> Num(100), height |-> Num(180)])
        /\ request = toCanvas(exportArgs.selectionRef,
                              Some(<<m[1], m[2], m[3], m[4], Zero, Zero>>))

\* A request for a translated, rotated image at scale 1/2 whose width is
\* rounded up: 101.25 canvas pixels are 202.5 source pixels, 203 are asked for.
C18_Witness ==
  /\ ExportCalledLive
  /\ exportArgs.imageTransform[1][2] # Zero
  /\ exportArgs.imageTransform[1][5] # Zero
  /\ exportArgs.selectionRef[1].width = Rat(405, 4)
  /\ exportOut[1].request = Some([width |-> Num(203), height |-> Num(360)])

\* C19: when the editor has no live selection or no live image, toCanvas
\* returns undefined, and the container's handler then sets the error message
\* and emits neither 'download' nor 'upload'.
C19_FailedExport ==
  (exportOut # None /\ exportOut[1].called
     /\ (exportArgs.selectionRef = None \/ exportArgs.imageTransform = None))
    => /\ exportOut[1].request = None
       /\ exportOut[1].emitted = None
       /\ exportPc \in {"canvas", "done"}
       /\ exportPc = "done" => exportOut[1].errorMessage

\* The handler has finished an export for which the editor had a selection
\* but no image.
C19_Witness ==
  /\ exportPc = "done"
  /\ exportOut # None /\ exportOut[1].called
  /\ exportArgs.selectionRef # None /\ exportArgs.imageTransform = None
  /\ exportArgs.toBlob1 = "image/webp"
  /\ exportOut[1].errorMessage

----------------------------------------------------------------------------
(* Claims about failures of the image-ready wait                           *)

\* The <img> fires 'error' in this step: the pending waits for the image fail.
ReadyWaitFails == imageState = "loading" /\ imageState' = "broken"

ExportNoBuffer ==
  \/ exportArgs.selectionRef = None
  \/ exportArgs.imageTransform = None
  \/ exportArgs.raster = "rejects"
  \/ exportArgs.container = "part_010" /\ exportArgs.toBlob1 = "null"
  \/ /\ exportArgs.container = "part_009"
     /\ exportArgs.toBlob1 # "image/webp"
     /\ ~exportArgs.toBlob2

\* C22: an export that yields no canvas or no blob ends with the error message
\* set and no event; an event is emitted only by a finished handler, with a
\* blob (never null), and is the event of the handler that ran; and a finished
\* export has either set the error message or emitted its event, never both
\* and never neither.
C22_ExportFailureExplicit ==
  exportOut # None =>
    LET out == exportOut[1]
    IN  /\ (exportPc = "done" /\ ExportNoBuffer) => (out.errorMessage /\ out.emitted = None)
        /\ out.emitted # None =>
             /\ exportPc = "done"
             /\ ~ExportNoBuffer
             /\ out.emitted[1].type \in {"image/webp", "image/png", "image/jpeg"}
             /\ out.emitted[1].event =
                  (IF exportArgs.handler = "handleDownload" THEN "download" ELSE "upload")
        /\ exportPc = "done" => (out.errorMessage <=> out.emitted = None)
        /\ exportPc # "done" => ~out.errorMessage

\* getOptimizedBlob found neither a WebP nor a JPEG blob for a canvas that was
\* rasterized: the handler has reported the failure.
C22_Witness ==
  /\ exportPc = "done"
  /\ exportOut # None /\ exportOut[1].request # None
  /\ exportArgs.container = "part_009"
  /\ exportArgs.raster = "canvas"
  /\ exportArgs.toBlob1 = "image/png" /\ ~exportArgs.toBlob2
  /\ exportOut[1].errorMessage /\ exportOut[1].emitted = None

----------------------------------------------------------------------------
(* Claims about invalid configurations (checked under SpecFit)             *)

\* C23 (as stated, for the fit computation): with a coverage outside (0, 1]
\* the fit is skipped, that is, calculateFitSelection yields no rectangle for
\* fitSelectionToImage to apply.
C23_InvalidConfigSkipsFit ==
  (fitCalled /\ FitPositiveImage /\ ~FitValidCoverage) => fitResult = None

----------------------------------------------------------------------------
(* useCropper: file validation and the object URL of the loaded image      *)

\* The two sources of the composable: useCropper.ts accepts HEIC/HEIF always,
\* part_002 asks useHeicSupport.
UseCropperTs   == "useCropper.ts"
UseCropperHeic == "part_002"
CropImpls == {UseCropperTs, UseCropperHeic}

\* Bounds.
MaxObjectUrls == 3                      \* object URLs one instance creates
CropMaxFileSizes == {1048576, 10485760} \* maxFileSize: 1 MB, and the default 10 MB

BASE_ACCEPTED_FORMATS ==
  {"image/jpeg", "image/png", "image/gif", "image/webp", "image/bmp", "image/avif"}
HEIC_FORMATS == {"image/heic", "image/heif"}
\* ACCEPTED_FORMATS of useCropper.ts.
ACCEPTED_FORMATS == BASE_ACCEPTED_FORMATS \cup HEIC_FORMATS

\* The accept strings, as the sequence of their comma-separated entries.
BASE_ACCEPT_STRING == <<".jpg", ".jpeg", ".png", ".gif", ".webp", ".bmp", ".avif">>
\* ACCEPT_STRING as the instance returns it: a constant in useCropper.ts, the
\* computed acceptString in part_002.
acceptString(impl, heicSupported) ==
  IF impl = UseCropperTs
  THEN <<".jpg", ".jpeg", ".png", ".gif", ".webp", ".bmp", ".heic", ".heif", ".avif">>
  ELSE IF heicSupported THEN BASE_ACCEPT_STRING \o <<".heic", ".heif">>
  ELSE BASE_ACCEPT_STRING
ACCEPT_STRING == acceptString(cropImpl, isHeicSupported)

\* The files under test: accepted, HEIC/HEIF and foreign MIME types (and the
\* empty type of an unknown file), sizes around the limit.
CropFileTypes ==
  {"image/jpeg", "image/avif", "image/heic", "image/heif", "application/pdf", ""}
CropFileNames == {"photo.jpg", "IMG_0001.HEIC"}
CropFileSizes == {4, maxFileSize - 1, maxFileSize, maxFileSize + 1}
CropFiles == [name : CropFileNames, type : CropFileTypes, size : CropFileSizes]

\* ValidationResult: error is "" when absent, else names the message.
ValidationResult(valid, error) == [valid |-> valid, error |-> error]

\* Mutant: a file of exactly maxFileSize bytes is rejected.
validateFileStrict(file) ==
  IF ~(file.type \in BASE_ACCEPTED_FORMATS
       \/ (file.type \in HEIC_FORMATS /\ (cropImpl = UseCropperTs \/ isHeicSupported)))
  THEN ValidationResult(FALSE, "format")
  ELSE IF file.size >= maxFileSize THEN ValidationResult(FALSE, "size")
  ELSE ValidationResult(TRUE, "")

\* validateFile: the format test comes first, then the size test.
validateFile(file) ==
  IF cropImpl = UseCropperTs
  THEN IF file.type \notin ACCEPTED_FORMATS THEN ValidationResult(FALSE, "format")
       ELSE IF file.size > maxFileSize THEN ValidationResult(FALSE, "size")
       ELSE ValidationResult(TRUE, "")
  ELSE LET isBaseFormat == file.type \in BASE_ACCEPTED_FORMATS
           isHeicFormat == file.type \in HEIC_FORMATS
           isSupportedHeic == isHeicFormat /\ isHeicSupported
       IN  IF ~isBaseFormat /\ ~isSupportedHeic THEN ValidationResult(FALSE, "format")
           ELSE IF file.size > maxFileSize THEN ValidationResult(FALSE, "size")
           ELSE ValidationResult(TRUE, "")

\* The calls made on URL.
UrlCall(op, url) == [op |-> op, url |-> url]
UrlsOf(log, op) == {log[i].url : i \in {j \in DOMAIN log : log[j].op = op}}
CreatedUrls == UrlsOf(urlLog, "createObjectURL")
RevokedUrls == UrlsOf(urlLog, "revokeObjectURL")
\* `if (imageUrl.value) URL.revokeObjectURL(imageUrl.value)`.
RevokeHeld == IF cropImageUrl # 0 THEN <<UrlCall("revokeObjectURL", cropImageUrl)>> ELSE <<>>

\* Mutant: loadImage stores the new URL without revoking the held one.
LoadImageLeaking(file) ==
  /\ cropImpl \in CropImpls
  /\ \E validation \in {validateFile(file)} :
       /\ lastLoad' = Some([file |-> file, result |-> validation])
       /\ IF ~validation.valid
          THEN UNCHANGED <<cropImageUrl, imageName, imageMimeType, urlLog>>
          ELSE /\ Cardinality(CreatedUrls) < MaxObjectUrls
               /\ \E url \in {Cardinality(CreatedUrls) + 1} :
                    /\ urlLog' = urlLog \o <<UrlCall("createObjectURL", url)>>
                    /\ cropImageUrl' = url
               /\ imageName' = file.name
               /\ imageMimeType' = file.type
  /\ UNCHANGED <<fitArgs, fitResult, fitCalled, exportVars, cropImpl, maxFileSize,
                 isHeicSupported, disposed, heicVars, edVars>>

\* loadImage(file). URL.createObjectURL returns a URL it has not returned before.
LoadImage(file) ==
  /\ cropImpl \in CropImpls
  /\ \E validation \in {validateFile(file)} :
       /\ lastLoad' = Some([file |-> file, result |-> validation])
       /\ IF ~validation.valid
          THEN UNCHANGED <<cropImageUrl, imageName, imageMimeType, urlLog>>
          ELSE /\ Cardinality(CreatedUrls) < MaxObjectUrls
               /\ \E url \in {Cardinality(CreatedUrls) + 1} :
                    /\ urlLog' = urlLog \o RevokeHeld \o <<UrlCall("createObjectURL", url)>>
                    /\ cropImageUrl' = url
               /\ imageName' = file.name
               /\ imageMimeType' = file.type
  /\ UNCHANGED <<fitArgs, fitResult, fitCalled, exportVars, cropImpl, maxFileSize,
                 isHeicSupported, disposed, heicVars, edVars>>

\* clear().
Clear ==
  /\ cropImpl \in CropImpls
  /\ urlLog' = urlLog \o RevokeHeld
  /\ cropImageUrl' = 0
  /\ imageName' = ""
  /\ imageMimeType' = ""
  /\ UNCHANGED <<fitArgs, fitResult, fitCalled, exportVars, cropImpl, maxFileSize,
                 isHeicSupported, lastLoad, disposed, heicVars, edVars>>

\* onScopeDispose(() => clear()): the scope is disposed once.
ScopeDispose ==
  /\ cropImpl \in CropImpls
  /\ ~disposed
  /\ disposed' = TRUE
  /\ urlLog' = urlLog \o RevokeHeld
  /\ cropImageUrl' = 0
  /\ imageName' = ""
  /\ imageMimeType' = ""
  /\ UNCHANGED <<fitArgs, fitResult, fitCalled, exportVars, cropImpl, maxFileSize,
                 isHeicSupported, lastLoad, heicVars, edVars>>

\* useHeicSupport: after mount the check resolves, and isSupported becomes
\* true on a browser that decodes HEIC (on another browser it stays false).
HeicSupportDetected ==
  /\ cropImpl \in CropImpls
  /\ ~isHeicSupported
  /\ ~disposed
  /\ isHeicSupported' = TRUE
  /\ UNCHANGED <<fitArgs, fitResult, fitCalled, exportVars, cropImpl, maxFileSize,
                 cropImageUrl, imageName, imageMimeType, urlLog, lastLoad, disposed,
                 heicVars, edVars>>

\* SpecCropper: one useCropper instance and its callers.
InitCropper ==
  /\ cropImpl \in CropImpls
  /\ maxFileSize \in CropMaxFileSizes
  /\ isHeicSupported = FALSE
  /\ cropImageUrl = 0 /\ imageName = "" /\ imageMimeType = ""
  /\ urlLog = <<>> /\ lastLoad = None /\ disposed = FALSE
  /\ fitArgs = None /\ fitResult = None /\ fitCalled = FALSE
  /\ ExportIdle
  /\ HeicIdle
  /\ EdInit({MovableBackground})
  /\ aspectRatio = Rat(9, 16)

NextCropper ==
  \/ \E file \in CropFiles : LoadImage(file)
  \/ Clear
  \/ ScopeDispose
  \/ HeicSupportDetected

SpecCropper == InitCropper /\ [][NextCropper]_vars

----------------------------------------------------------------------------
(* Claims about useCropper (checked under SpecCropper)                     *)

\* The MIME types the instance accepts in the current state.
AcceptedNow ==
  BASE_ACCEPTED_FORMATS
    \cup (IF cropImpl = UseCropperTs \/ isHeicSupported THEN HEIC_FORMATS ELSE {})

\* C24: a loadImage call whose file has a MIME type that is not accepted, or a
\* size above maxFileSize, returns valid = false with an error, leaves
\* imageUrl, imageName and imageMimeType as they were and calls neither
\* URL.createObjectURL nor URL.revokeObjectURL; a call with an accepted type
\* and a size of exactly maxFileSize returns valid = true.
C24_RejectedLoadChangesNothing ==
  [][\A file \in CropFiles :
       LoadImage(file) =>
         /\ (file.type \notin AcceptedNow \/ file.size > maxFileSize) =>
              /\ ~lastLoad'[1].result.valid
              /\ lastLoad'[1].result.error # ""
              /\ cropImageUrl' = cropImageUrl
              /\ imageName' = imageName
              /\ imageMimeType' = imageMimeType
              /\ urlLog' = urlLog
         /\ (file.type \in AcceptedNow /\ file.size = maxFileSize) =>
              /\ lastLoad'[1].result.valid
              /\ cropImageUrl' # cropImageUrl
    ]_vars

\* A file one byte above the limit was rejected while an image is held.
C24_Witness ==
  /\ lastLoad # None
  /\ lastLoad[1].file.type = "image/jpeg"
  /\ lastLoad[1].file.size = maxFileSize + 1
  /\ lastLoad[1].result = ValidationResult(FALSE, "size")
  /\ cropImageUrl = 1 /\ imageMimeType = "image/avif"
  /\ urlLog = <<UrlCall("createObjectURL", 1)>>

\* The object URLs created and not revoked in log are the held one alone.
OnlyHeldUnrevoked(log, held) ==
  UrlsOf(log, "createObjectURL") \ UrlsOf(log, "revokeObjectURL") = {held} \ {0}

\* C25: at every moment the object URLs created and not yet revoked are the
\* held one alone; a successful loadImage revokes the held URL, then creates
\* and stores the new one with the file's name and type; clear, and the
\* scope's disposal, revoke the held URL and reset imageUrl, imageName and
\* imageMimeType to empty strings.
C25_ObjectUrlLifecycle ==
  [][/\ OnlyHeldUnrevoked(urlLog, cropImageUrl)
     /\ OnlyHeldUnrevoked(urlLog', cropImageUrl')
     /\ \A file \in CropFiles :
          (LoadImage(file) /\ lastLoad'[1].result.valid) =>
            /\ urlLog' = urlLog \o RevokeHeld
                           \o <<UrlCall("createObjectURL", cropImageUrl')>>
            /\ cropImageUrl' \notin CreatedUrls \cup {0}
            /\ imageName' = file.name /\ imageMimeType' = file.type
     /\ (Clear \/ ScopeDispose) =>
          /\ urlLog' = urlLog \o RevokeHeld
          /\ cropImageUrl' = 0 /\ imageName' = "" /\ imageMimeType' = ""
    ]_vars

\* Two images were loaded and the scope disposed: both URLs are revoked, each
\* before the next call on URL.
C25_Witness ==
  /\ disposed
  /\ cropImageUrl = 0 /\ imageName = ""
  /\ urlLog = <<UrlCall("createObjectURL", 1), UrlCall("revokeObjectURL", 1),
                UrlCall("createObjectURL", 2), UrlCall("revokeObjectURL", 2)>>

\* Which of .heic and .heif an accept string lists, and which it should.
OffersHeic(accept) == {accept[i] : i \in DOMAIN accept} \cap {".heic", ".heif"}
HeicOffer(heicSupported) == IF heicSupported THEN {".heic", ".heif"} ELSE {}

\* C26 (as stated): a HEIC/HEIF file is rejected with the format error while
\* isHeicSupported is false and accepted (if not too large) while it is true,
\* and ACCEPT_STRING lists .heic and .heif exactly when isHeicSupported is true.
C26_HeicOnlyWhenSupported ==
  [][/\ OffersHeic(acceptString(cropImpl, isHeicSupported)) = HeicOffer(isHeicSupported)
     /\ OffersHeic(acceptString(cropImpl', isHeicSupported')) = HeicOffer(isHeicSupported')
     /\ \A file \in CropFiles :
          (LoadImage(file) /\ file.type \in HEIC_FORMATS) =>
            IF isHeicSupported
            THEN lastLoad'[1].result.valid <=> (file.size <= maxFileSize)
            ELSE lastLoad'[1].result = ValidationResult(FALSE, "format")
    ]_vars

----------------------------------------------------------------------------
(* Claims about the selection's shape (checked under SpecSnap)             *)

\* C27 (as stated): in every state with the editor rendered, the selection has
\* a width/height ratio, and it is the configured aspectRatio: the height is
\* positive and the width is the height times aspectRatio, after the initial
\* layout, after the programmatic fit, after every selection change that
\* applied, and after every snap-back of the selection.
C27_AspectLocked ==
  Mounted =>
    /\ RGt(selection.height, Zero)
    /\ selection.width = RMul(selection.height, aspectRatio)

----------------------------------------------------------------------------
(* Claims about the two steps of the boundary correction                   *)

\* A correction of MovableBackgroundImageEditor runs on a loaded image at rest.
SnapRunAtRest ==
  /\ variant = MovableBackground
  /\ imageState = "complete"
  /\ ~transition
  /\ snapRuns' = snapRuns + 1

\* max(selection.width / image.width, selection.height / image.height) of the
\* rectangles the correction reads.
SnapMaxRatio ==
  RMax(RDiv(selectionRect.width, imageRect.width),
       RDiv(selectionRect.height, imageRect.height))

\* C28 (as stated): whenever the image is smaller than the selection along
\* either axis when the correction runs, the image is scaled by
\* max(selection.width / image.width, selection.height / image.height), and
\* afterwards both of its axes are at least the selection's; when it is
\* already at least as large on both axes its scale is left alone.
C28_SnapScaleStep ==
  [][SnapRunAtRest =>
       IF RGt(SnapMaxRatio, One)
       THEN /\ matrix'.a = RMul(matrix.a, SnapMaxRatio)
            /\ RGe(ImageRectOf(naturalSize', matrix').width, selectionRect.width)
            /\ RGe(ImageRectOf(naturalSize', matrix').height, selectionRect.height)
       ELSE matrix'.a = matrix.a
    ]_vars

\* The image's rectangle after step 1 of a correction that set scale a1: the
\* scale changes about the centre, the translation is still the old one.
RectAfterScale(a1) == ImageRectOf(naturalSize, Matrix(a1, matrix.tx, matrix.ty))

\* The gap between an edge of the image's rectangle ir and the selection's
\* edge on the same side (positive: the image's edge lies inside).
LeftGap(ir) == RSub(ir.left, selectionRect.left)
RightGap(ir) ==
  RSub(RAdd(selectionRect.left, selectionRect.width), RAdd(ir.left, ir.width))
TopGap(ir) == RSub(ir.top, selectionRect.top)
BottomGap(ir) ==
  RSub(RAdd(selectionRect.top, selectionRect.height), RAdd(ir.top, ir.height))

\* The translation that removes the gap of one axis, in container pixels:
\* `before` is the gap at the left or top, `after` the one at the right or
\* bottom.
GapShift(before, after) ==
  IF RGt(before, Zero) THEN RSub(Zero, before)
  ELSE IF RGt(after, Zero) THEN after ELSE Zero

\* C29 (as stated): a correction translates the image, on each axis, by
\* exactly the gap on the side where the image's edge lies inside the
\* selection's, and by zero when neither side has a gap; what is added to tx
\* and ty is that gap divided by globalScale; after the step no gap remains on
\* any side.
C29_SnapTranslateStep ==
  [][SnapRunAtRest =>
       /\ matrix'.tx =
            RAdd(matrix.tx,
                 RDiv(GapShift(LeftGap(RectAfterScale(matrix'.a)),
                               RightGap(RectAfterScale(matrix'.a))), globalScale))
       /\ matrix'.ty =
            RAdd(matrix.ty,
                 RDiv(GapShift(TopGap(RectAfterScale(matrix'.a)),
                               BottomGap(RectAfterScale(matrix'.a))), globalScale))
       /\ Contains(ImageRectOf(naturalSize', matrix'), selectionRect)
    ]_vars

----------------------------------------------------------------------------
(* Claims about the two-finger pan                                         *)

\* The matrix m translated by the way from midpoint `from` to midpoint `to`,
\* in the image's local units.
PannedBy(m, from, to) ==
  MoveMatrix(m, RDiv(RSub(to.x, from.x), globalScale),
             RDiv(RSub(to.y, from.y), globalScale))

\* The translation of matrix m.
TranslationOf(m) == <<m.tx, m.ty>>

\* What a 'pointermove' event of pointer p at pos does but for the two-finger
\* pan: nothing for a pointer that is not tracked; with one pointer tracked
\* the image follows the pointer, with more it keeps its translation.
MoveWithoutPan(p, pos) ==
  /\ p \notin DOMAIN activePointers => UNCHANGED <<matrix, pointerVars, selection>>
  /\ (p \in DOMAIN activePointers /\ Cardinality(DOMAIN activePointers) = 1) =>
       matrix' = PannedBy(matrix, activePointers[p], pos)
  /\ (p \in DOMAIN activePointers /\ Cardinality(DOMAIN activePointers) > 2) =>
       TranslationOf(matrix') = TranslationOf(matrix)

\* C30 (as stated): while exactly two pointers are tracked, every pointermove
\* of a tracked pointer translates the image by (midpoint of the two pointers
\* after the event - their midpoint before it) / globalScale; with one
\* pointer or with three tracked no such translation is applied, and the
\* pointermove of a pointer that is not tracked changes nothing.
C30_TwoFingerPan ==
  [][\A p \in PointerIds, pos \in PointerPositions, f \in PinchFactors :
       PointerMove(p, pos, f) =>
         /\ MoveWithoutPan(p, pos)
         /\ (p \in DOMAIN activePointers /\ Cardinality(DOMAIN activePointers) = 2) =>
              TranslationOf(matrix') =
                TranslationOf(PannedBy(matrix, getTwoFingerCenter(activePointers)[1],
                                       getTwoFingerCenter(activePointers')[1]))
    ]_vars

\* C30 (amended): the same, but for the first pointermove after the number of
\* tracked pointers came back to two from three: no midpoint is recorded for
\* it, it applies no translation and records the midpoint. For every other
\* one the midpoint recorded is the one of the two pointers before the event.
C30_TwoFingerPanRecorded ==
  [][\A p \in PointerIds, pos \in PointerPositions, f \in PinchFactors :
       PointerMove(p, pos, f) =>
         /\ MoveWithoutPan(p, pos)
         /\ (p \in DOMAIN activePointers /\ Cardinality(DOMAIN activePointers) = 2) =>
              /\ prevTwoFingerCenter' = getTwoFingerCenter(activePointers')
              /\ IF prevTwoFingerCenter = None
                 THEN TranslationOf(matrix') = TranslationOf(matrix)
                 ELSE /\ prevTwoFingerCenter = getTwoFingerCenter(activePointers)
                      /\ TranslationOf(matrix') =
                           TranslationOf(PannedBy(matrix, prevTwoFingerCenter[1],
                                                  getTwoFingerCenter(activePointers')[1]))
    ]_vars

\* Two pointers went down on the loaded image and one of them moved, in a
\* pinch that scaled the image: the image was translated with their midpoint.
C30_Witness ==
  /\ variant = MovableBackground
  /\ imageState = "complete"
  /\ Cardinality(DOMAIN activePointers) = 2
  /\ steps = 3
  /\ snapRuns = 0
  /\ prevTwoFingerCenter = getTwoFingerCenter(activePointers)
  /\ matrix.a # ContainMatrix(naturalSize).a
  /\ TranslationOf(matrix) # TranslationOf(ContainMatrix(naturalSize))

----------------------------------------------------------------------------
(* Claims about the meaning of coverage                                    *)

\* C31 (as stated): for a positive image size, aspectRatio > 0 and coverage in
\* (0, 1], the rectangle returned is coverage times the largest rectangle of
\* the aspect ratio that fits inside the image: it occupies the fraction
\* `coverage` of the image's limiting dimension.
C31_FitCoverageOfLargest ==
  (fitCalled /\ FitPositiveImage /\ FitValidCoverage) =>
    /\ Len(fitResult) = 1
    /\ fitResult[1].width =
         RMul(fitArgs.coverage, ContainW(FitImgW, FitImgH, fitArgs.aspectRatio))
    /\ fitResult[1].height =
         RMul(fitArgs.coverage, ContainH(FitImgW, FitImgH, fitArgs.aspectRatio))

----------------------------------------------------------------------------
(* Claims about the stationary image of image-bounded mode                 *)

\* C32: in image-bounded mode, while allowScaleTransform is false every
\* transform event of the image is prevented, and no step but a change of the
\* image source changes the image's transform; while it is true a transform
\* event passes and its transform is the image's.
C32_ImageStationary ==
  [][
      (variant \in ImageBoundedVariants) =>
        (/\ (~allowScaleTransform /\ imageUrl' = imageUrl) => matrix' = matrix
         /\ ~allowScaleTransform' => matrix' = matrix
         /\ \A m \in ImageGestures(matrix) :
              UserImageTransform(m) =>
                (/\ lastTransform'[1].applied = allowScaleTransform
                 /\ matrix' = (IF allowScaleTransform THEN m ELSE matrix)))
    ]_vars

\* An image has loaded and been centred, the window has closed, and a gesture
\* on the image was prevented: the image is where the centring left it.
C32_Witness ==
  /\ variant \in ImageBoundedVariants
  /\ imageState = "complete"
  /\ ~allowScaleTransform
  /\ lastTransform # None
  /\ ~lastTransform[1].applied
  /\ lastTransform[1].candidate # matrix
  /\ matrix = ContainMatrix(naturalSize)

----------------------------------------------------------------------------
(* Claims about degenerate geometry                                        *)

FitPositiveCanvas ==
  RGt(fitArgs.canvasRect.width, Zero) /\ RGt(fitArgs.canvasRect.height, Zero)

\* C33 (as stated, the calculator's part): for zero or negative image or
\* container dimensions calculateFitSelection returns null.
C33_DegenerateGeometryIsNull ==
  (fitCalled /\ ~(FitPositiveImage /\ FitPositiveCanvas)) => fitResult = None

\* ---------------------------------------------------------------------------
\* useHeicSupport.ts: checkHeicSupport and performImageTest
\* ---------------------------------------------------------------------------

\* The browsers: window.ImageDecoder is absent ("none"), or its
\* isTypeSupported('image/heic') answers true, answers false, or rejects;
\* and an <img> given the HEIC test picture fires load or fires error.
HeicEnvs ==
  [imageDecoder : {"none", "supported", "unsupported", "rejects"}, decodes : BOOLEAN]

\* The image tests started so far, and the 1000 ms timers of
\* performImageTest that have not fired yet: they all have the same
\* delay, so they fire in the order they were set.
ImageTestsStarted == Cardinality({d \in Detections : detections[d].testNo # 0})
PendingHeicTimers == {detections[d].testNo : d \in {e \in Detections : detections[e].timer}}

\* resolve(value) of the call's promise: a promise keeps its first value.
ResolvePromise(det, value) ==
  [det EXCEPT !.pc = "resolved",
              !.result = IF det.result = None THEN Some(value) ELSE det.result]

\* performImageTest: a new Image with onload and onerror set, the local
\* flag resolved = false, and the 1000 ms timer.
performImageTest(det, n) ==
  [det EXCEPT !.pc = "test", !.testNo = n, !.resolved = FALSE, !.img = TRUE, !.timer = TRUE]

\* handleResolve(value) of detection d, whose record is det: the first
\* call of this detection sets the flag, writes the cache, detaches the
\* image (cleanup) and resolves; a later call does nothing.
handleResolve(d, det, value) ==
  IF ~det.resolved
  THEN /\ cachedSupport' = Some(value)
       /\ detections' =
            [detections EXCEPT ![d] =
               ResolvePromise([det EXCEPT !.resolved = TRUE, !.img = FALSE], value)]
  ELSE /\ detections' = [detections EXCEPT ![d] = det]
       /\ UNCHANGED cachedSupport

heicRest == <<fitArgs, fitResult, fitCalled, exportVars, cropVars, heicEnv, edVars>>

\* checkHeicSupport(): the cached value if there is one; otherwise the
\* ImageDecoder query when the browser has ImageDecoder, the image test
\* when it has not.
checkHeicSupport(d) ==
  /\ detections[d].pc = "idle"
  /\ detections' =
       [detections EXCEPT ![d] =
          IF cachedSupport # None
          THEN ResolvePromise(@, cachedSupport[1])
          ELSE IF heicEnv.imageDecoder # "none"
               THEN [@ EXCEPT !.pc = "query", !.queried = TRUE]
               ELSE performImageTest(@, ImageTestsStarted + 1)]
  /\ UNCHANGED <<cachedSupport, heicRest>>

\* The ImageDecoder query settles: supported writes the cache and
\* resolves; unsupported, or a rejection, starts the image test.
ImageDecoderSettles(d) ==
  /\ detections[d].pc = "query"
  /\ IF heicEnv.imageDecoder = "supported"
     THEN /\ cachedSupport' = Some(TRUE)
          /\ detections' = [detections EXCEPT ![d] = ResolvePromise(@, TRUE)]
     ELSE /\ detections' = [detections EXCEPT ![d] = performImageTest(@, ImageTestsStarted + 1)]
          /\ UNCHANGED cachedSupport
  /\ UNCHANGED heicRest

\* img.onload / img.onerror of detection d's test image.
HeicImageLoad(d) ==
  /\ detections[d].img
  /\ heicEnv.decodes
  /\ handleResolve(d, detections[d], TRUE)
  /\ UNCHANGED heicRest

HeicImageError(d) ==
  /\ detections[d].img
  /\ ~heicEnv.decodes
  /\ handleResolve(d, detections[d], FALSE)
  /\ UNCHANGED heicRest

\* The 1000 ms timer of detection d's image test fires:
\* if (cachedSupport === null) handleResolve(false).
HeicTimeoutEnabled(d) ==
  /\ detections[d].timer
  /\ \A t \in PendingHeicTimers : detections[d].testNo <= t

HeicTimeout(d) ==
  /\ HeicTimeoutEnabled(d)
  /\ IF cachedSupport = None
     THEN handleResolve(d, [detections[d] EXCEPT !.timer = FALSE], FALSE)
     ELSE /\ detections' = [detections EXCEPT ![d].timer = FALSE]
          /\ UNCHANGED cachedSupport
  /\ UNCHANGED heicRest

InitHeic ==
  /\ cachedSupport = None
  /\ heicEnv \in HeicEnvs
  /\ detections = [d \in Detections |-> NotCalled]
  /\ fitArgs = None /\ fitResult = None /\ fitCalled = FALSE
  /\ ExportIdle
  /\ CropIdle
  /\ EdInit({MovableBackground})
  /\ aspectRatio = Rat(9, 16)

NextHeic ==
  \/ \E d \in Detections : checkHeicSupport(d)
  \/ \E d \in Detections : ImageDecoderSettles(d)
  \/ \E d \in Detections : HeicImageLoad(d)
  \/ \E d \in Detections : HeicImageError(d)
  \/ \E d \in Detections : HeicTimeout(d)

SpecHeic == InitHeic /\ [][NextHeic]_vars

\* ---------------------------------------------------------------------------
\* C34  The HEIC detection result is cached globally: once cachedSupport
\*      has been set it never changes, and a checkHeicSupport call made
\*      after that resolves to the cached value without an ImageDecoder
\*      query and without an image test, also when several detections
\*      were started before the first one finished.
\* ---------------------------------------------------------------------------
CachedCallAnswers(d) ==
  (detections[d].pc = "idle" /\ detections'[d].pc # "idle") =>
    /\ detections'[d].pc = "resolved"
    /\ detections'[d].result = cachedSupport
    /\ ~detections'[d].queried
    /\ detections'[d].testNo = 0

C34_CacheIsFinal ==
  [][
      (cachedSupport # None) =>
        (/\ cachedSupport' = cachedSupport
         /\ \A d \in Detections : CachedCallAnswers(d))
    ]_vars

\* SpecHeicFair: a timer that is due fires, and the ImageDecoder query
\* settles. Nothing makes an <img> fire load or error: the 1000 ms
\* timer is there because the image may do neither.
HeicFairness ==
  \A d \in Detections : WF_vars(HeicTimeout(d)) /\ WF_vars(ImageDecoderSettles(d))

SpecHeicFair == InitHeic /\ [][NextHeic]_vars /\ HeicFairness

\* ---------------------------------------------------------------------------
\* C37  Every checkHeicSupport call eventually resolves: on the image-test
\*      path through onload, onerror or the 1000 ms timeout, also when
\*      several detections run concurrently and another detection has
\*      already written cachedSupport.
\* ---------------------------------------------------------------------------
C37_EveryCheckResolves ==
  \A d \in Detections : (detections[d].pc # "idle") ~> (detections[d].result # None)

\* ---------------------------------------------------------------------------
\* C35  prevTwoFingerCenter is non-null only when exactly two pointers are
\*      tracked, and then it is the midpoint of the two positions stored
\*      in activePointers; so a move never measures its translation
\*      against the midpoint of an earlier two-finger phase.
\* ---------------------------------------------------------------------------
C35_CenterTracksPointers ==
  (variant = MovableBackground /\ prevTwoFingerCenter # None) =>
    /\ Cardinality(DOMAIN activePointers) = 2
    /\ prevTwoFingerCenter = getTwoFingerCenter(activePointers)

\* Two pointers are tracked after a third one was lifted, one of the two has
\* moved since, and the midpoint recorded is the one of their positions now.
C35_Witness ==
  /\ variant = MovableBackground
  /\ imageState = "complete"
  /\ steps = MaxPanSteps
  /\ DOMAIN activePointers = {2, 3}
  /\ activePointers[2] # activePointers[3]
  /\ prevTwoFingerCenter # None
  /\ prevTwoFingerCenter = getTwoFingerCenter(activePointers)
  /\ TranslationOf(matrix) = TranslationOf(ContainMatrix(naturalSize))
  /\ matrix.a # ContainMatrix(naturalSize).a

\* Correction m has set the transition style and is still animating: neither
\* 'transitionend' nor its own fallback timeout has run its cleanup.
StillAnimating(m) == transition /\ m \in cleanupListeners /\ m \in cleanupTimers

\* ---------------------------------------------------------------------------
\* C36  The cleanup of one correction affects only that correction: the
\*      fallback timeout scheduled by an earlier snapToBoundary call never
\*      clears the transition style that a later call set, while that
\*      later correction is still animating.
\* ---------------------------------------------------------------------------
C36_CleanupIsOwn ==
  [][\A n \in 1..(MaxBgSteps + 1) :
       (/\ n \in cleanupTimers
        /\ n \notin cleanupTimers'
        /\ \E m \in (n + 1)..(MaxBgSteps + 1) : StillAnimating(m))
         => transition'
    ]_vars

\* ---------------------------------------------------------------------------
\* C38  In CropperEditor the preview follows the selection: whatever the
\*      order in which the pending $toCanvas calls complete, the last
\*      'update-canvas' emitted carries the canvas of the most recently
\*      accepted selection. Stated for the states where nothing is
\*      pending any more: the canvas emitted last is the one made for the
\*      selection as it is.
\* ---------------------------------------------------------------------------
C38_PreviewFollowsSelection ==
  (/\ variant = CropperEditor
   /\ Mounted
   /\ rasterJobs = <<>>
   /\ previewTimers = 0
   /\ updateCanvas # None)
    => updateCanvas[1].of = selection

\* ---------------------------------------------------------------------------
\* The container of CropperEditor (part_005): cancel
\* ---------------------------------------------------------------------------

\* handleCancel, bound to the cancel button, which is rendered while
\* imageUrl is set: clear() empties imageUrl, and currentPreviewCanvas is
\* set to null. In the editor the watcher returns at once for the empty
\* URL (no timer is cleared, the window flag is left alone) and the
\* template removes the canvas, image and selection elements. Pending
\* timeouts and pending $toCanvas promises are not touched.
handleCancel ==
  /\ UserMay
  /\ variant = CropperEditor
  /\ imageUrl' = 0
  /\ imageState' = "none"
  /\ naturalSize' = NoSize
  /\ matrix' = IdentityMatrix
  /\ selection' = ZeroRect
  /\ currentPreviewCanvas' = None
  /\ steps' = steps + 1
  /\ UNCHANGED <<fitVars, props, watchers, loadErrors, gateVars, microtasks, pointerVars,
                 wheelTimeout, snapVars, previewTimers, rasterJobs, updateCanvas,
                 changeVars, lastTransform>>

\* SpecPreview: CropperEditor in its container, with cancel.
InitPreview == EdInit({CropperEditor}) /\ EdFitIdle

NextPreview ==
  \/ SetImageUrl
  \/ Tick1
  \/ \E nat \in NaturalSizes : ImageLoad(nat)
  \/ ImageError
  \/ \E c \in Candidates : UserSelectionChange(c)
  \/ \E m \in ImageGestures(matrix) : UserImageTransform(m)
  \/ Timer500Fires
  \/ PreviewTimerFires
  \/ \E i \in 1..MaxRasterJobs : RasterDone(i)
  \/ handleCancel

SpecPreview == InitPreview /\ [][NextPreview]_vars

\* ---------------------------------------------------------------------------
\* C39  After cancel the container's currentPreviewCanvas stays null until
\*      a new image is loaded: no rasterization and no preview timer
\*      still pending from the cleared image sets it again.
\* ---------------------------------------------------------------------------
C39_CancelledPreviewStaysNull ==
  (variant = CropperEditor /\ ~Mounted) => currentPreviewCanvas = None

\* The rectangle calculateFitSelection returns for the same image, container
\* and ratio with coverage c.
FitWithCoverage(c) ==
  calculateFitSelection(fitArgs.imageRect, fitArgs.canvasRect, fitArgs.aspectRatio, c)

\* ---------------------------------------------------------------------------
\* C40  calculateFitSelection is monotone in coverage: for a fixed positive
\*      image size and aspectRatio and coverages 0 < c1 <= c2 <= 1, the
\*      rectangle returned for c2 is at least as wide and at least as
\*      high as the one returned for c1.
\* ---------------------------------------------------------------------------
C40_MonotoneInCoverage ==
  (fitCalled /\ FitPositiveImage /\ FitValidCoverage) =>
    \A c1 \in FitCoverages :
      (RGt(c1, Zero) /\ RLe(c1, fitArgs.coverage)) =>
        /\ fitResult # None
        /\ FitWithCoverage(c1) # None
        /\ RLe(FitWithCoverage(c1)[1].width, fitResult[1].width)
        /\ RLe(FitWithCoverage(c1)[1].height, fitResult[1].height)

====
